---------------------------- MODULE Spec2Model ----------------------------
(***************************************************************************)
(* A model of the Cucumber Studio adapter's request layer: the in-memory   *)
(* response cache (SimpleCache), the path-based invalidator                *)
(* (invalidateCacheForPath) and the request orchestrator                   *)
(* (makeCucumberStudioRequest), in its exact-key variant (api-client.ts)   *)
(* and its substring variant (the earlier api-client).                     *)
(*                                                                         *)
(* Strings are sequences of tokens.  The tokens "/", "?" and ":" are the   *)
(* separator characters; every other token is a run of characters that     *)
(* holds no separator ("projects", "scenarios", "include=tags", a digit of *)
(* an id).  Template strings are concatenations, split() and join() work   *)
(* on the separator tokens.                                                *)
(***************************************************************************)
EXTENDS Integers, Sequences, FiniteSets, TLC

VARIABLES
    cache,        \* SimpleCache.cache of requestCache: key -> CacheEntry
    ttl,          \* SimpleCache.TTL of requestCache, in milliseconds
    now,          \* Date.now(), in milliseconds
    enableCache,  \* config.enableCache
    variant,      \* which makeCucumberStudioRequest is linked: "exact" | "substring"
    upVer,        \* the upstream's state: the number of writes it has applied
    inflight,     \* the calls suspended at `await axios(requestConfig)`
    nCalls,       \* the number of makeCucumberStudioRequest calls started
    last,         \* the call that finished last: what it was, what axios
                  \* delivered to it and what it gave its caller
    staleKeys,    \* the keys whose entry was stored before a scenario-set write returned
    probe,        \* the last direct SimpleCache operation and its result
    nTicks,       \* the number of clock advances so far
    derived,      \* the arguments and the key set of the last invalidator run
    codec,        \* the scenario text codec: its input and what it made of it
    readOnlyMode, \* config.readOnlyMode
    server,       \* which server is linked: "lowlevel" (Server) | "mcp" (McpServer)
    tool,         \* the last tool call: its name, the response and what ran
    tagsRun,      \* the addTagsToScenario call: its tags, attempts and outcome
    handlers,     \* which handlers are linked: "typed" | "earlier"
    run,          \* the tool handler that is running or has finished
    store,        \* the upstream's scenarios
    environment,  \* process.env: NODE_ENV and the CUCUMBER_STUDIO_ variables
    config,       \* the exported config, once config.ts has been loaded
    handled       \* the handleError calls made: the errors and the messages

\* the state of the request layer, and the state of the tools above it
coreVars == <<cache, ttl, now, enableCache, variant, upVer, inflight, nCalls,
              last, staleKeys, probe, nTicks, derived>>
appVars == <<codec, readOnlyMode, server, tool, tagsRun, handlers, run, store>>
auxVars == <<environment, config, handled>>
vars == <<coreVars, appVars, auxVars>>

-----------------------------------------------------------------------------
(* Bounds of the model *)

MaxCalls == 3
MaxTicks == 2
MaxClockJumps == 1
MaxSegments == 6
MaxSteps == 2
MaxLines == 2
MaxFormats == 2
MaxHandlerCalls == 2
MaxTags == 3
MaxRuns == 2
MaxToolTags == 2
MaxInFlight == 2
MaxErrors == 2

-----------------------------------------------------------------------------
(* Strings *)

\* path.split(sep): the pieces of s between the separator tokens
RECURSIVE Split(_, _)
Split(s, sep) ==
    IF \A i \in 1..Len(s) : s[i] # sep
    THEN <<s>>
    ELSE LET i == CHOOSE i \in 1..Len(s) :
                     s[i] = sep /\ \A j \in 1..(i - 1) : s[j] # sep
         IN  <<SubSeq(s, 1, i - 1)>> \o Split(SubSeq(s, i + 1, Len(s)), sep)

\* .filter(s => s): the non-empty pieces
NonEmpty(s) == s # <<>>
FilterNonEmpty(pieces) == SelectSeq(pieces, NonEmpty)

\* pieces.join(sep)
RECURSIVE Join(_, _)
Join(pieces, sep) ==
    IF pieces = <<>> THEN <<>>
    ELSE IF Len(pieces) = 1 THEN pieces[1]
    ELSE pieces[1] \o <<sep>> \o Join(Tail(pieces), sep)

\* pieces.slice(0, n)
Slice0(pieces, n) == SubSeq(pieces, 1, IF n < Len(pieces) THEN n ELSE Len(pieces))

\* key.includes(pattern)
Includes(s, pattern) ==
    \E i \in 0..(Len(s) - Len(pattern)) :
        \A j \in 1..Len(pattern) : s[i + j] = pattern[j]

\* a cache key that leaves the query string out
CacheKeyOf_NoQuery(method, path) == <<method, ":">> \o Split(path, "?")[1]

\* `${method}:${path}`
CacheKeyOf(method, path) == <<method, ":">> \o path

-----------------------------------------------------------------------------
(* Response bodies and JavaScript values *)

\* response.data: a JSON document of the upstream's state at version v
JsonBody(v) == [kind |-> "json", ver |-> v]
\* response.data of a response with an empty body: the empty string
EmptyBody == [kind |-> "empty", ver |-> 0]
\* null
Null == [kind |-> "null", ver |-> 0]

\* if (cachedResponse): JavaScript truthiness of a cached value
Truthy(v) == v.kind = "json"

-----------------------------------------------------------------------------
(* SimpleCache *)

DefaultTTL == 60000

\* constructor(ttlMs): if (ttlMs) this.TTL = ttlMs
SimpleCacheTTL(ttlMs) == IF ttlMs # 0 THEN ttlMs ELSE DefaultTTL

\* Map.delete(key)
MapDelete(c, key) == [k \in DOMAIN c \ {key} |-> c[k]]

\* Map.set(key, entry)
MapSet(c, key, entry) ==
    [k \in DOMAIN c \cup {key} |-> IF k = key THEN entry ELSE c[k]]

\* a get that finds nothing
SimpleCache_get_Miss(c, key, t, T) == [cache |-> c, value |-> Null]

\* a get whose expiry test is `>=`: an entry exactly TTL old counts as expired
SimpleCache_get_AtTtlExpired(c, key, t, T) ==
    IF key \notin DOMAIN c THEN [cache |-> c, value |-> Null]
    ELSE IF t - c[key].timestamp >= T
         THEN [cache |-> MapDelete(c, key), value |-> Null]
         ELSE [cache |-> c, value |-> c[key].data]

\* get(key) at time t with TTL T: the cache it leaves and the value it returns
SimpleCache_get(c, key, t, T) ==
    IF key \notin DOMAIN c THEN [cache |-> c, value |-> Null]
    ELSE IF t - c[key].timestamp > T
         THEN [cache |-> MapDelete(c, key), value |-> Null]
         ELSE [cache |-> c, value |-> c[key].data]

\* a set that updates an existing entry in place and keeps its timestamp
SimpleCache_set_KeepsTimestamp(c, key, data, t) ==
    MapSet(c, key, [data |-> data,
                    timestamp |-> IF key \in DOMAIN c THEN c[key].timestamp ELSE t])

\* set(key, data) at time t
SimpleCache_set(c, key, data, t) ==
    MapSet(c, key, [data |-> data, timestamp |-> t])

\* an exact-key invalidate that matches by substring, as the earlier variant did
SimpleCache_invalidate_BySubstring(c, key) ==
    [k \in {x \in DOMAIN c : ~Includes(x, key)} |-> c[k]]

\* invalidate(key), exact-key variant
SimpleCache_invalidate(c, key) ==
    IF key \in DOMAIN c THEN MapDelete(c, key) ELSE c

\* a pattern invalidate that removes the entry stored under the pattern itself
SimpleCache_invalidatePattern_ExactKey(c, keyPattern) ==
    [k \in DOMAIN c \ {keyPattern} |-> c[k]]

\* invalidate(keyPattern), substring variant
SimpleCache_invalidatePattern(c, keyPattern) ==
    [k \in {x \in DOMAIN c : ~Includes(x, keyPattern)} |-> c[k]]

\* clear()
SimpleCache_clear(c) == << >>

-----------------------------------------------------------------------------
(* invalidateCacheForPath, exact-key variant *)

\* path.split('?')[0].split('/').filter(s => s)
PathSegments(path) == FilterNonEmpty(Split(Split(path, "?")[1], "/"))

\* `/projects/${projectId}`
ProjectPathOf(projectId) == <<"/", "projects", "/">> \o projectId
\* `${projectPath}/${resourceType}`
CollectionPathOf(projectId, resourceType) ==
    ProjectPathOf(projectId) \o <<"/">> \o resourceType
\* `${collectionPath}/${resourceId}`
SpecificResourcePathOf(projectId, resourceType, resourceId) ==
    CollectionPathOf(projectId, resourceType) \o <<"/">> \o resourceId

\* a derivation that forgets the resource's tag collection (line 105 dropped)
KeysToInvalidate_NoTagCollection(path) ==
    LET seg == PathSegments(path)
        n   == Len(seg)
        inProject == n >= 2 /\ seg[1] = <<"projects">>
        specific  == SpecificResourcePathOf(seg[2], seg[3], seg[4])
        tagged    == inProject /\ n >= 5 /\ seg[5] = <<"tags">>
    IN  {CacheKeyOf("GET", path)}
        \cup (IF inProject
              THEN {CacheKeyOf("GET", ProjectPathOf(seg[2]))} ELSE {})
        \cup (IF inProject /\ n >= 3
              THEN {CacheKeyOf("GET", CollectionPathOf(seg[2], seg[3]))} ELSE {})
        \cup (IF inProject /\ n >= 4
              THEN {CacheKeyOf("GET", specific)} ELSE {})
        \cup (IF tagged
              THEN {CacheKeyOf("GET", specific \o <<"?", "include=tags">>)}
              ELSE {})
        \cup (IF tagged /\ n >= 6
              THEN {CacheKeyOf("GET", specific \o <<"/", "tags", "/">> \o seg[6])}
              ELSE {})

\* keysToInvalidate once lines 67-116 have run
KeysToInvalidate(path) ==
    LET seg == PathSegments(path)
        n   == Len(seg)
        inProject == n >= 2 /\ seg[1] = <<"projects">>
        specific  == SpecificResourcePathOf(seg[2], seg[3], seg[4])
        tagged    == inProject /\ n >= 5 /\ seg[5] = <<"tags">>
    IN  {CacheKeyOf("GET", path)}
        \cup (IF inProject
              THEN {CacheKeyOf("GET", ProjectPathOf(seg[2]))} ELSE {})
        \cup (IF inProject /\ n >= 3
              THEN {CacheKeyOf("GET", CollectionPathOf(seg[2], seg[3]))} ELSE {})
        \cup (IF inProject /\ n >= 4
              THEN {CacheKeyOf("GET", specific)} ELSE {})
        \cup (IF tagged
              THEN {CacheKeyOf("GET", specific \o <<"?", "include=tags">>),
                    CacheKeyOf("GET", specific \o <<"/", "tags">>)}
              ELSE {})
        \cup (IF tagged /\ n >= 6
              THEN {CacheKeyOf("GET", specific \o <<"/", "tags", "/">> \o seg[6])}
              ELSE {})

\* the guard of line 61, then the key set
DerivedKeys(method, path, enabled) ==
    IF ~enabled \/ method = "GET" THEN {} ELSE KeysToInvalidate(path)

\* for (const key of keysToInvalidate) requestCache.invalidate(key)
RECURSIVE InvalidateEach(_, _)
InvalidateEach(c, keys) ==
    IF keys = {} THEN c
    ELSE LET k == CHOOSE k \in keys : TRUE
         IN  InvalidateEach(SimpleCache_invalidate(c, k), keys \ {k})

\* an invalidator that drops the exact key of the written path and nothing else
InvalidateCacheForPath_ExactKeyOnly(c, method, path, enabled) ==
    IF ~enabled \/ method = "GET" THEN c
    ELSE SimpleCache_invalidate(c, CacheKeyOf("GET", path))

\* invalidateCacheForPath(method, path): the cache it leaves
InvalidateCacheForPath(c, method, path, enabled) ==
    InvalidateEach(c, DerivedKeys(method, path, enabled))

\* the substring variant's invalidation (part_000 lines 107-112):
\* path.split('?')[0].split('/').slice(0, 3).join('/')
ResourcePathOf(path) == Join(Slice0(Split(Split(path, "?")[1], "/"), 3), "/")

InvalidateByResourcePath(c, method, path, enabled) ==
    IF method # "GET" /\ enabled
    THEN SimpleCache_invalidatePattern(c, ResourcePathOf(path))
    ELSE c

-----------------------------------------------------------------------------
(* Values the variables take while a part of the program is not exercised *)

NoCall == [method |-> "none", path |-> <<>>, outcome |-> "none", value |-> Null,
           net |-> 0, axios |-> Null, invArgs |-> <<>>, stale |-> FALSE,
           reads |-> 0, writes |-> 0, invs |-> 0]
\* what is known of a key's history: its last set (data, at) if no invalidate or
\* clear came after it, and the set before that one (prevData, prevAt)
NoHistory == [state |-> "never", data |-> Null, at |-> 0,
              overwritten |-> FALSE, prevData |-> Null, prevAt |-> 0]
\* the keys and values the direct cache operations are tried on
ProbeKeys == {CacheKeyOf("GET", CollectionPathOf(<<"1">>, <<"scenarios">>)),
              CacheKeyOf("GET", CollectionPathOf(<<"1">>, <<"scenarios">>)
                                  \o <<"?", "include=tags">>)}
ProbeValues == {JsonBody(1), EmptyBody}
TtlInputs == {0, 1000}
NoProbe == [op |-> "none", key |-> <<>>, at |-> 0, result |-> Null,
            hist |-> [k \in ProbeKeys |-> NoHistory]]
NoDerived == [method |-> "none", path |-> <<>>, keys |-> {}, done |-> FALSE]

\* the tools above the request layer, not called
NoCodec == [kind |-> "none"]
NoTool == [name |-> <<>>, response |-> "none", handler |-> "none", net |-> 0,
           content |-> "none"]
NoTagsRun == [pc |-> "none", tags |-> <<>>]
NoRun == [pc |-> "none", n |-> 0]
NoStore == << >>

\* an environment variable that is not set (undefined); a set one is <<text>>
Undefined == <<>>
\* process.env with none of the variables set
NoEnvironment ==
    [NODE_ENV |-> Undefined, LOG_LEVEL |-> Undefined, ENABLE_CACHE |-> Undefined,
     ENABLE_REQUEST_LOGGING |-> Undefined, ENABLE_RESPONSE_LOGGING |-> Undefined,
     SANITIZE_ERRORS |-> Undefined]
NoConfig == [loaded |-> FALSE]
NoHandled == [n |-> 0, utils |-> "utils.ts", calls |-> <<>>]

AuxIdle ==
    /\ environment = NoEnvironment
    /\ config = NoConfig
    /\ handled = NoHandled

AppIdle ==
    /\ codec = NoCodec
    /\ readOnlyMode = FALSE
    /\ server = "lowlevel"
    /\ tool = NoTool
    /\ tagsRun = NoTagsRun
    /\ handlers = "typed"
    /\ run = NoRun
    /\ store = NoStore

OrchestratorIdle ==
    /\ variant = "exact"
    /\ upVer = 0
    /\ inflight = {}
    /\ nCalls = 0
    /\ last = NoCall
    /\ staleKeys = {}

-----------------------------------------------------------------------------
(* The invalidator alone: one run of the key derivation on one input *)

Methods == {"GET", "POST", "PATCH", "DELETE"}
SegmentTokens == {"projects", "scenarios", "tags", "7"}
QueryStrings == {<<>>, <<"?", "include=tags">>}

\* a request path written from its segments: "/" before each, then the query
RECURSIVE PathOfSegments(_)
PathOfSegments(segs) ==
    IF segs = <<>> THEN <<>>
    ELSE <<"/", Head(segs)>> \o PathOfSegments(Tail(segs))

SegmentLists == UNION {[1..n -> SegmentTokens] : n \in 0..MaxSegments}

PathInputs == {PathOfSegments(segs) \o q : segs \in SegmentLists, q \in QueryStrings}

InitInv ==
    /\ AuxIdle
    /\ AppIdle
    /\ cache = << >>
    /\ ttl = DefaultTTL
    /\ now = 0
    /\ nTicks = 0
    /\ enableCache \in BOOLEAN
    /\ OrchestratorIdle
    /\ probe = NoProbe
    /\ \E m \in Methods, p \in PathInputs :
          derived = [method |-> m, path |-> p, keys |-> {}, done |-> FALSE]

\* invalidateCacheForPath(method, path) up to line 116
Derive ==
    /\ ~derived.done
    /\ derived' = [derived EXCEPT
                     !.keys = DerivedKeys(derived.method, derived.path, enableCache),
                     !.done = TRUE]
    /\ UNCHANGED <<cache, ttl, now, enableCache, variant, upVer, inflight, nCalls,
                   last, staleKeys, probe, nTicks, appVars, auxVars>>

NextInv == Derive

SpecInv == InitInv /\ [][NextInv]_vars

\* C6: for a non-GET method and a path /projects/P/T/R/tags/G (with or without a
\* query string), with caching enabled, the derived key set holds GET:/projects/P,
\* GET:/projects/P/T, GET:/projects/P/T/R, GET:/projects/P/T/R/tags,
\* GET:/projects/P/T/R/tags/G and the exact key GET:<full path>; for a path whose
\* first segment is not `projects` it is the exact key alone.
C6_DerivedKeySet ==
    (derived.done /\ enableCache /\ derived.method # "GET") =>
        LET p == derived.path
            tagShape ==
                /\ Len(p) >= 12
                /\ \A i \in {1, 3, 5, 7, 9, 11} : p[i] = "/"
                /\ p[2] = "projects" /\ p[10] = "tags"
                /\ \A i \in {4, 6, 8, 12} : p[i] \in SegmentTokens
                /\ SubSeq(p, 13, Len(p)) \in QueryStrings
        IN  /\ tagShape =>
                {<<"GET", ":", "/", "projects", "/", p[4]>>,
                 <<"GET", ":", "/", "projects", "/", p[4], "/", p[6]>>,
                 <<"GET", ":", "/", "projects", "/", p[4], "/", p[6], "/", p[8]>>,
                 <<"GET", ":", "/", "projects", "/", p[4], "/", p[6], "/", p[8],
                   "/", "tags">>,
                 <<"GET", ":", "/", "projects", "/", p[4], "/", p[6], "/", p[8],
                   "/", "tags", "/", p[12]>>,
                 <<"GET", ":">> \o p} \subseteq derived.keys
            /\ (Len(p) < 2 \/ p[2] # "projects")
                  => derived.keys = {<<"GET", ":">> \o p}

\* C6 witness: the derivation has run on PATCH /projects/7/scenarios/7/tags/7?include=tags
C6_Witness ==
    /\ derived.done /\ enableCache /\ derived.method = "PATCH"
    /\ derived.path = <<"/", "projects", "/", "7", "/", "scenarios", "/", "7",
                        "/", "tags", "/", "7", "?", "include=tags">>
    /\ Cardinality(derived.keys) = 7

-----------------------------------------------------------------------------
(* The cache alone: SimpleCache's operations called directly *)

InitCache ==
    /\ AuxIdle
    /\ AppIdle
    /\ cache = << >>
    /\ ttl \in {SimpleCacheTTL(ttlMs) : ttlMs \in TtlInputs}
    /\ now = 0
    /\ nTicks = 0
    /\ enableCache = TRUE
    /\ OrchestratorIdle
    /\ probe = NoProbe
    /\ derived = NoDerived

\* requestCache.set(k, v)
CacheSet(k, v) ==
    /\ cache' = SimpleCache_set(cache, k, v, now)
    /\ probe' = [op |-> "set", key |-> k, at |-> now, result |-> Null,
                 hist |-> [probe.hist EXCEPT ![k] =
                     [state |-> "set", data |-> v, at |-> now,
                      overwritten |-> (probe.hist[k].state = "set"),
                      prevData |-> probe.hist[k].data,
                      prevAt |-> probe.hist[k].at]]]
    /\ UNCHANGED <<ttl, now, enableCache, variant, upVer, inflight, nCalls,
                   last, staleKeys, nTicks, derived, appVars, auxVars>>

\* requestCache.get(k)
CacheGet(k) ==
    /\ cache' = SimpleCache_get(cache, k, now, ttl).cache
    /\ probe' = [probe EXCEPT !.op = "get", !.key = k, !.at = now,
                   !.result = SimpleCache_get(cache, k, now, ttl).value]
    /\ UNCHANGED <<ttl, now, enableCache, variant, upVer, inflight, nCalls,
                   last, staleKeys, nTicks, derived, appVars, auxVars>>

\* requestCache.invalidate(k)
CacheInvalidate(k) ==
    /\ cache' = SimpleCache_invalidate(cache, k)
    /\ probe' = [probe EXCEPT !.op = "invalidate", !.key = k, !.at = now,
                   !.result = Null,
                   !.hist[k] = [NoHistory EXCEPT !.state = "invalidated"]]
    /\ UNCHANGED <<ttl, now, enableCache, variant, upVer, inflight, nCalls,
                   last, staleKeys, nTicks, derived, appVars, auxVars>>

\* requestCache.clear()
CacheClear ==
    /\ cache' = SimpleCache_clear(cache)
    /\ probe' = [probe EXCEPT !.op = "clear", !.key = <<>>, !.at = now,
                   !.result = Null,
                   !.hist = [k \in ProbeKeys |-> [NoHistory EXCEPT !.state = "cleared"]]]
    /\ UNCHANGED <<ttl, now, enableCache, variant, upVer, inflight, nCalls,
                   last, staleKeys, nTicks, derived, appVars, auxVars>>

\* time passes: a whole TTL, or a millisecond more
Tick(d) ==
    /\ now' = now + d
    /\ nTicks' = nTicks + 1
    /\ UNCHANGED <<cache, ttl, enableCache, variant, upVer, inflight, nCalls,
                   last, staleKeys, probe, derived, appVars, auxVars>>

NextCache ==
    \/ \E k \in ProbeKeys, v \in ProbeValues : CacheSet(k, v)
    \/ \E k \in ProbeKeys : CacheGet(k)
    \/ \E k \in ProbeKeys : CacheInvalidate(k)
    \/ CacheClear
    \/ \E d \in {ttl, ttl + 1} : nTicks < MaxTicks /\ Tick(d)

SpecCache == InitCache /\ [][NextCache]_vars

-----------------------------------------------------------------------------
(* The client functions: the request each hands to makeCucumberStudioRequest *)

\* includeTags ? '?include=tags' : ''
IncludeParam(includeTags) == IF includeTags THEN <<"?", "include=tags">> ELSE <<>>

Request(method, path) == [method |-> method, path |-> path]

getProject(projectId) == Request("GET", ProjectPathOf(projectId))
getScenarios(projectId, includeTags) ==
    Request("GET", ProjectPathOf(projectId) \o <<"/", "scenarios">>
                     \o IncludeParam(includeTags))
getScenario(projectId, scenarioId, includeTags) ==
    Request("GET", ProjectPathOf(projectId) \o <<"/", "scenarios", "/">>
                     \o scenarioId \o IncludeParam(includeTags))
createScenario(projectId) ==
    Request("POST", ProjectPathOf(projectId) \o <<"/", "scenarios">>)
updateScenario(projectId, scenarioId) ==
    Request("PATCH", ProjectPathOf(projectId) \o <<"/", "scenarios", "/">> \o scenarioId)
deleteScenario(projectId, scenarioId) ==
    Request("DELETE", ProjectPathOf(projectId) \o <<"/", "scenarios", "/">> \o scenarioId)
addTagToScenario(projectId, scenarioId) ==
    Request("POST", ProjectPathOf(projectId) \o <<"/", "scenarios", "/">>
                      \o scenarioId \o <<"/", "tags">>)
updateTag(projectId, scenarioId, tagId) ==
    Request("PATCH", ProjectPathOf(projectId) \o <<"/", "scenarios", "/">>
                       \o scenarioId \o <<"/", "tags", "/">> \o tagId)
deleteTag(projectId, scenarioId, tagId) ==
    Request("DELETE", ProjectPathOf(projectId) \o <<"/", "scenarios", "/">>
                        \o scenarioId \o <<"/", "tags", "/">> \o tagId)

\* the ids the calls are made with
ProjectIds == {<<"1">>}
ScenarioIds == {<<"7">>}
TagIds == {<<"9">>}

ClientRequests ==
    UNION {
        {getScenarios(p, i) : p \in ProjectIds, i \in BOOLEAN},
        {getScenario(p, sc, i) : p \in ProjectIds, sc \in ScenarioIds, i \in BOOLEAN},
        {createScenario(p) : p \in ProjectIds},
        {updateScenario(p, sc) : p \in ProjectIds, sc \in ScenarioIds},
        {deleteScenario(p, sc) : p \in ProjectIds, sc \in ScenarioIds},
        {updateTag(p, sc, g) : p \in ProjectIds, sc \in ScenarioIds, g \in TagIds} }

\* the writes that change the scenario set of a project
ScenarioSetWrites ==
    UNION {
        {createScenario(p) : p \in ProjectIds},
        {updateScenario(p, sc) : p \in ProjectIds, sc \in ScenarioIds},
        {deleteScenario(p, sc) : p \in ProjectIds, sc \in ScenarioIds} }

-----------------------------------------------------------------------------
(* makeCucumberStudioRequest *)

CacheTTLSeconds == 120

\* the errors axios rejects with: error.response set (the upstream answered with
\* a status), error.request set (no response received), or neither (set-up)
ResponseError(status) == [kind |-> "error", class |-> "response", status |-> status]
NoResponseError == [kind |-> "error", class |-> "request", status |-> 0]
SetupError == [kind |-> "error", class |-> "setup", status |-> 0]
Statuses == {500}

\* lines 131-139: the cache read of a GET with caching enabled
\* (reads: the number of requestCache.get calls made)
CacheLookup_AnyMethod(c, method, path, t, T, enabled) ==
    IF enabled
    THEN LET g == SimpleCache_get(c, CacheKeyOf(method, path), t, T)
         IN  [cache |-> g.cache, value |-> IF method = "GET" THEN g.value ELSE Null,
              reads |-> 1]
    ELSE [cache |-> c, value |-> Null, reads |-> 0]

CacheLookup(c, method, path, t, T, enabled) ==
    IF method = "GET" /\ enabled
    THEN LET g == SimpleCache_get(c, CacheKeyOf(method, path), t, T)
         IN  [cache |-> g.cache, value |-> g.value, reads |-> 1]
    ELSE [cache |-> c, value |-> Null, reads |-> 0]

\* a response handler that stores a GET response whatever config.enableCache is
AfterResponse_IgnoresFlag(c, v, method, path, data, t, enabled) ==
    IF method = "GET"
    THEN SimpleCache_set(c, CacheKeyOf(method, path), data, t)
    ELSE c

\* a response handler that stores the response of every method
AfterResponse_StoresAnyMethod(c, v, method, path, data, t, enabled) ==
    IF enabled
    THEN SimpleCache_set(c, CacheKeyOf(method, path), data, t)
    ELSE c

\* lines 181-188 (part_000 lines 103-112): the cache after a response arrived
AfterResponse(c, v, method, path, data, t, enabled) ==
    IF method = "GET" /\ enabled
    THEN SimpleCache_set(c, CacheKeyOf(method, path), data, t)
    ELSE IF method # "GET"
         THEN IF v = "exact"
              THEN InvalidateCacheForPath(c, method, path, enabled)
              ELSE InvalidateByResourcePath(c, method, path, enabled)
         ELSE c

\* the same lines: the number of requestCache.set calls and of
\* requestCache.invalidate calls they make
EffectsAfterResponse(v, method, path, enabled) ==
    IF method = "GET" /\ enabled
    THEN [writes |-> 1, invs |-> 0]
    ELSE IF method # "GET"
         THEN IF v = "exact"
              THEN [writes |-> 0,
                    invs |-> Cardinality(DerivedKeys(method, path, enabled))]
              ELSE [writes |-> 0, invs |-> IF enabled THEN 1 ELSE 0]
         ELSE [writes |-> 0, invs |-> 0]

\* the arguments invalidateCacheForPath was called with, if it was called
InvalidatorArgs(v, method, path) ==
    IF method # "GET" /\ v = "exact" THEN <<method, path>> ELSE <<>>

\* line 190: return response.data
ReturnResponse(data) == [outcome |-> "return", value |-> data]

\* a catch block that logs and swallows the error: the call returns null
CatchBlock_Swallows(error) == [outcome |-> "return", value |-> Null]

\* lines 191-205: the catch block logs and re-throws
CatchBlock(error) == [outcome |-> "throw", value |-> error]

Init ==
    /\ AuxIdle
    /\ AppIdle
    /\ cache = << >>
    /\ ttl = SimpleCacheTTL(CacheTTLSeconds * 1000)
    /\ now = 0
    /\ nTicks = 0
    /\ enableCache \in BOOLEAN
    /\ variant \in {"exact", "substring"}
    /\ upVer = 0
    /\ inflight = {}
    /\ nCalls = 0
    /\ last = NoCall
    /\ staleKeys = {}
    /\ probe = NoProbe
    /\ derived = NoDerived

\* a call that finds a truthy cached value returns it (lines 129-137)
CacheHit(req) ==
    /\ nCalls < MaxCalls
    /\ LET r == CacheLookup(cache, req.method, req.path, now, ttl, enableCache)
       IN  /\ Truthy(r.value)
           /\ cache' = r.cache
           /\ last' = [method |-> req.method, path |-> req.path,
                       outcome |-> ReturnResponse(r.value).outcome,
                       value |-> ReturnResponse(r.value).value,
                       net |-> 0, axios |-> Null, invArgs |-> <<>>,
                       stale |-> CacheKeyOf(req.method, req.path) \in staleKeys,
                       reads |-> r.reads, writes |-> 0, invs |-> 0]
    /\ nCalls' = nCalls + 1
    /\ UNCHANGED <<ttl, now, enableCache, variant, upVer, inflight,
                   staleKeys, probe, nTicks, derived, appVars, auxVars>>

\* a call that finds none issues the request and suspends (lines 129-168)
Issue(req) ==
    /\ nCalls < MaxCalls
    /\ LET r == CacheLookup(cache, req.method, req.path, now, ttl, enableCache)
       IN  /\ ~Truthy(r.value)
           /\ cache' = r.cache
           /\ staleKeys' = staleKeys \cap DOMAIN r.cache
           /\ inflight' = inflight \cup
                 {[id |-> nCalls + 1, method |-> req.method, path |-> req.path,
                   stage |-> "sent", data |-> Null, ver |-> 0, reads |-> r.reads,
                   overtaken |-> FALSE]}
    /\ nCalls' = nCalls + 1
    /\ UNCHANGED <<ttl, now, enableCache, variant, upVer, last,
                   probe, nTicks, derived, appVars, auxVars>>

\* the upstream answers a request: a GET reads its state, a write changes it
Serve(r, empty) ==
    /\ r.stage = "sent"
    /\ empty => r.method = "GET"
    /\ LET v == IF r.method = "GET" THEN upVer ELSE upVer + 1
       IN  /\ upVer' = v
           /\ inflight' = (inflight \ {r}) \cup
                 {[r EXCEPT !.stage = "served", !.ver = v,
                            !.data = IF empty THEN EmptyBody ELSE JsonBody(v)]}
    /\ UNCHANGED <<cache, ttl, now, enableCache, variant, nCalls, last,
                   staleKeys, probe, nTicks, derived, appVars, auxVars>>

\* the calls still suspended once call r has resumed: a GET that the upstream
\* answered before it applied the scenario-set write r holds a body that r's
\* invalidation can no longer reach
StillSuspended(calls, r) ==
    {[c EXCEPT !.overtaken =
          \/ c.overtaken
          \/ /\ Request(r.method, r.path) \in ScenarioSetWrites
             /\ c.method = "GET" /\ c.stage = "served" /\ c.ver < r.ver] :
        c \in calls \ {r}}

\* the response arrives and the call resumes (lines 168-190)
Complete(r) ==
    /\ r.stage = "served"
    /\ inflight' = StillSuspended(inflight, r)
    /\ cache' = AfterResponse(cache, variant, r.method, r.path, r.data, now, enableCache)
    /\ last' = [method |-> r.method, path |-> r.path,
                outcome |-> ReturnResponse(r.data).outcome,
                value |-> ReturnResponse(r.data).value,
                net |-> 1, axios |-> r.data, invArgs |-> InvalidatorArgs(variant, r.method, r.path),
                stale |-> FALSE, reads |-> r.reads,
                writes |-> EffectsAfterResponse(variant, r.method, r.path,
                                                enableCache).writes,
                invs |-> EffectsAfterResponse(variant, r.method, r.path,
                                              enableCache).invs]
    /\ staleKeys' =
          IF r.method = "GET"
          THEN IF r.overtaken /\ CacheKeyOf(r.method, r.path) \in DOMAIN cache'
               THEN (staleKeys \cap DOMAIN cache') \cup {CacheKeyOf(r.method, r.path)}
               ELSE (staleKeys \cap DOMAIN cache') \ {CacheKeyOf(r.method, r.path)}
          ELSE (staleKeys \cap DOMAIN cache') \cup
               (IF Request(r.method, r.path) \in ScenarioSetWrites
                THEN {k \in DOMAIN cache' : /\ cache'[k].data.kind = "json"
                                            /\ cache'[k].data.ver < r.ver}
                ELSE {})
    /\ UNCHANGED <<ttl, now, enableCache, variant, upVer, nCalls,
                   probe, nTicks, derived, appVars, auxVars>>

\* the errors axios can reject a suspended call with
\* before the upstream has answered: the request cannot be set up, times out, or
\* is rejected with a status (the upstream's state does not change); once it has
\* answered: the response is lost
FailuresAt(r) ==
    IF r.stage = "sent"
    THEN {SetupError, NoResponseError} \cup {ResponseError(st) : st \in Statuses}
    ELSE {NoResponseError}

\* a catch block that also drops the cached entries the request's path touches
Fail_ThenInvalidates(r, error) ==
    /\ error \in FailuresAt(r)
    /\ inflight' = inflight \ {r}
    /\ cache' = [k \in {x \in DOMAIN cache : ~Includes(x, r.path)} |-> cache[k]]
    /\ last' = [method |-> r.method, path |-> r.path,
                outcome |-> CatchBlock(error).outcome,
                value |-> CatchBlock(error).value,
                net |-> 1, axios |-> error, invArgs |-> <<>>, stale |-> FALSE,
                reads |-> r.reads, writes |-> 0, invs |-> 0]
    /\ UNCHANGED <<ttl, now, enableCache, variant, upVer, nCalls,
                   staleKeys, probe, nTicks, derived, appVars, auxVars>>

\* axios rejects and the call resumes in the catch block (lines 191-205)
Fail(r, error) ==
    /\ error \in FailuresAt(r)
    /\ inflight' = inflight \ {r}
    /\ last' = [method |-> r.method, path |-> r.path,
                outcome |-> CatchBlock(error).outcome,
                value |-> CatchBlock(error).value,
                net |-> 1, axios |-> error, invArgs |-> <<>>, stale |-> FALSE,
                reads |-> r.reads, writes |-> 0, invs |-> 0]
    /\ UNCHANGED <<cache, ttl, now, enableCache, variant, upVer, nCalls,
                   staleKeys, probe, nTicks, derived, appVars, auxVars>>

\* the host runs one tool invocation at a time: a call is started when none is
\* suspended
Next ==
    \/ \E req \in ClientRequests : CacheHit(req)
    \/ \E req \in ClientRequests : inflight = {} /\ Issue(req)
    \/ \E r \in inflight, empty \in BOOLEAN : Serve(r, empty)
    \/ \E r \in inflight : Complete(r)
    \/ \E r \in inflight : \E error \in FailuresAt(r) : Fail(r, error)
    \/ nTicks < MaxClockJumps /\ Tick(ttl + 1)

Spec == Init /\ [][Next]_vars

\* the handler of a tool call is async and the host does not wait for one call
\* to end before it dispatches the next: up to MaxInFlight calls are suspended
\* at `await axios(requestConfig)` at once.  Each action is one synchronous
\* stretch of makeCucumberStudioRequest, which nothing interleaves with.
ConcurrentRequests ==
    {getScenario(<<"1">>, <<"7">>, FALSE), getScenarios(<<"1">>, FALSE),
     updateScenario(<<"1">>, <<"7">>), createScenario(<<"1">>)}

InitConcurrent ==
    /\ Init
    /\ enableCache

NextConcurrent ==
    \/ \E req \in ConcurrentRequests : CacheHit(req)
    \/ \E req \in ConcurrentRequests : Cardinality(inflight) < MaxInFlight /\ Issue(req)
    \/ \E r \in inflight : Serve(r, FALSE)
    \/ \E r \in inflight : Complete(r)
    \/ \E r \in inflight : \E error \in FailuresAt(r) : Fail(r, error)
    \/ nTicks < MaxClockJumps /\ Tick(ttl + 1)

SpecConcurrent == InitConcurrent /\ [][NextConcurrent]_vars

\* the substring variant with the projects 1, 2 and 12: the path of project 1
\* is a substring of the paths of project 12
SubstringProjects == {<<"1">>, <<"2">>, <<"1", "2">>}
SubstringRequests ==
    UNION {{getProject(p), getScenarios(p, FALSE), createScenario(p)} :
              p \in SubstringProjects}

InitSubstring ==
    /\ Init
    /\ enableCache
    /\ variant = "substring"

NextSubstring ==
    \/ \E req \in SubstringRequests : CacheHit(req)
    \/ \E req \in SubstringRequests : inflight = {} /\ Issue(req)
    \/ \E r \in inflight : Serve(r, FALSE)
    \/ \E r \in inflight : Complete(r)
    \/ \E r \in inflight : \E error \in FailuresAt(r) : Fail(r, error)

SpecSubstring == InitSubstring /\ [][NextSubstring]_vars

-----------------------------------------------------------------------------
(* The scenario text codec (utils.ts)                                      *)
(*                                                                         *)
(* A definition is a sequence of tokens: " " is a blank, "\n" a line feed, *)
(* "'" a single quote; every other token is a word that holds none of      *)
(* these ("call", "given", "scenario", "a").  The regular expressions are  *)
(* matched token by token, leftmost match first.                           *)

StepKeywords == {"given", "when", "then", "and"}

\* \s
IsSpace(t) == t \in {" ", "\n"}

\* String.prototype.toLowerCase (and the i flag of a regular expression)
ToLowerCase(t) ==
    CASE t = "GIVEN" -> "given"
      [] t = "CALL" -> "call"
      [] t = "TRUE" -> "true"
      [] t = "DEBUG" -> "debug"
      [] OTHER -> t

\* \s* from position i: the position of the first token that is no blank
RECURSIVE SpacesEnd(_, _)
SpacesEnd(s, i) == IF i <= Len(s) /\ IsSpace(s[i]) THEN SpacesEnd(s, i + 1) ELSE i

\* String.prototype.trim
RECURSIVE TrimStart(_)
TrimStart(s) == IF s # <<>> /\ IsSpace(Head(s)) THEN TrimStart(Tail(s)) ELSE s
RECURSIVE TrimEnd(_)
TrimEnd(s) ==
    IF s # <<>> /\ IsSpace(s[Len(s)]) THEN TrimEnd(SubSeq(s, 1, Len(s) - 1)) ELSE s
Trim(s) == TrimEnd(TrimStart(s))

\* String.prototype.startsWith
StartsWith(s, prefix) ==
    Len(s) >= Len(prefix) /\ SubSeq(s, 1, Len(prefix)) = prefix

\* the position of the first quote at or after i (Len(s) + 1 if there is none)
RECURSIVE NextQuote(_, _)
NextQuote(s, i) == IF i > Len(s) \/ s[i] = "'" THEN i ELSE NextQuote(s, i + 1)

NoMatch == [ok |-> FALSE, type |-> "", text |-> <<>>]

\* '([^']+)' at position q
QuotedAt(s, q, type) ==
    IF q <= Len(s) /\ s[q] = "'"
    THEN LET e == NextQuote(s, q + 1)
         IN  IF e <= Len(s) /\ e > q + 1
             THEN [ok |-> TRUE, type |-> type, text |-> SubSeq(s, q + 1, e - 1)]
             ELSE NoMatch
    ELSE NoMatch

\* (given|when|then|and)\s+'([^']+)' at position k, with the i flag
KeywordQuotedAt(s, k) ==
    IF k <= Len(s) /\ ToLowerCase(s[k]) \in StepKeywords /\ SpacesEnd(s, k + 1) > k + 1
    THEN QuotedAt(s, SpacesEnd(s, k + 1), s[k])
    ELSE NoMatch

\* (?:call\s+)?(given|when|then|and)\s+'([^']+)' at position i, with the i flag
StepPatternAt(s, i) ==
    LET withCall ==
            IF /\ i <= Len(s) /\ ToLowerCase(s[i]) = "call"
               /\ SpacesEnd(s, i + 1) > i + 1
            THEN KeywordQuotedAt(s, SpacesEnd(s, i + 1))
            ELSE NoMatch
    IN  IF withCall.ok THEN withCall ELSE KeywordQuotedAt(s, i)

\* line.match(/(?:call\s+)?(given|when|then|and)\s+'([^']+)'/i)
StepPattern(line) ==
    IF \E i \in 1..Len(line) : StepPatternAt(line, i).ok
    THEN StepPatternAt(line, CHOOSE i \in 1..Len(line) :
                                /\ StepPatternAt(line, i).ok
                                /\ \A j \in 1..(i - 1) : ~StepPatternAt(line, j).ok)
    ELSE NoMatch

\* the lines extractScenarioSteps and formatScenarioDefinition leave alone
IsScenarioOrEndLine(line) ==
    StartsWith(Trim(line), <<"scenario">>) \/ Trim(line) = <<"end">>

\* a parser that keeps the keyword as it is written
RECURSIVE StepsOfLines_KeepsCase(_)
StepsOfLines_KeepsCase(lines) ==
    IF lines = <<>> THEN <<>>
    ELSE LET line == Trim(Head(lines))
             m == StepPattern(line)
         IN  (IF StartsWith(line, <<"scenario">>) \/ line = <<"end">> THEN <<>>
              ELSE IF m.ok THEN <<[type |-> m.type, text |-> m.text]>>
              ELSE <<>>) \o StepsOfLines_KeepsCase(Tail(lines))

\* the loop of extractScenarioSteps over the lines
RECURSIVE StepsOfLines(_)
StepsOfLines(lines) ==
    IF lines = <<>> THEN <<>>
    ELSE LET line == Trim(Head(lines))
             m == StepPattern(line)
         IN  (IF StartsWith(line, <<"scenario">>) \/ line = <<"end">> THEN <<>>
              ELSE IF m.ok THEN <<[type |-> ToLowerCase(m.type), text |-> m.text]>>
              ELSE <<>>) \o StepsOfLines(Tail(lines))

extractScenarioSteps(definition) ==
    IF definition = <<>> THEN <<>> ELSE StepsOfLines(Split(definition, "\n"))

\* scenario\s+'([^']+)' at position i, with the i flag
NamePatternAt(s, i) ==
    IF i <= Len(s) /\ ToLowerCase(s[i]) = "scenario" /\ SpacesEnd(s, i + 1) > i + 1
    THEN QuotedAt(s, SpacesEnd(s, i + 1), "")
    ELSE NoMatch

extractScenarioName(definition) ==
    IF \E i \in 1..Len(definition) : NamePatternAt(definition, i).ok
    THEN NamePatternAt(definition,
                       CHOOSE i \in 1..Len(definition) :
                           /\ NamePatternAt(definition, i).ok
                           /\ \A j \in 1..(i - 1) : ~NamePatternAt(definition, j).ok).text
    ELSE <<>>

scenarioToStructured(definition) ==
    [name |-> extractScenarioName(definition),
     steps |-> extractScenarioSteps(definition)]

\* `  call ${step.type} '${step.text}'\n` for each step
RECURSIVE StepLinesOf(_)
StepLinesOf(steps) ==
    IF steps = <<>> THEN <<>>
    ELSE <<" ", " ", "call", " ", Head(steps).type, " ", "'">> \o Head(steps).text
            \o <<"'", "\n">> \o StepLinesOf(Tail(steps))

stepsToScenarioDefinition(name, steps) ==
    <<"scenario", " ", "'">> \o name \o <<"'", " ", "do", "\n">>
        \o StepLinesOf(steps) \o <<"end", "\n">>

\* call\s+(given|when|then|and)\s+ at position i (no i flag)
CallPatternAt(s, i) ==
    /\ i <= Len(s) /\ s[i] = "call"
    /\ SpacesEnd(s, i + 1) > i + 1
    /\ SpacesEnd(s, i + 1) <= Len(s)
    /\ s[SpacesEnd(s, i + 1)] \in StepKeywords
    /\ SpacesEnd(s, SpacesEnd(s, i + 1) + 1) > SpacesEnd(s, i + 1) + 1

\* line.replace(/call\s+(given|when|then|and)\s+/, '$1 '): the first match only
ReplaceCall(line) ==
    IF \E i \in 1..Len(line) : CallPatternAt(line, i)
    THEN LET i == CHOOSE i \in 1..Len(line) :
                     /\ CallPatternAt(line, i)
                     /\ \A j \in 1..(i - 1) : ~CallPatternAt(line, j)
             k == SpacesEnd(line, i + 1)
             e == SpacesEnd(line, k + 1)
         IN  SubSeq(line, 1, i - 1) \o <<line[k], " ">> \o SubSeq(line, e, Len(line))
    ELSE line

FormatLine(line) ==
    IF StartsWith(Trim(line), <<"scenario">>) \/ Trim(line) = <<"end">>
    THEN line
    ELSE ReplaceCall(line)

formatScenarioDefinition(definition) ==
    IF definition = <<>> THEN <<>>
    ELSE LET lines == Split(definition, "\n")
         IN  Join([i \in 1..Len(lines) |-> FormatLine(lines[i])], "\n")

-----------------------------------------------------------------------------
(* The codec alone: one structured scenario or one definition text, which  *)
(* is generated, normalised and parsed                                     *)

\* the structured scenarios handed to stepsToScenarioDefinition
ScenarioNames == {<<"Login">>}
StepTypes == StepKeywords \cup {"GIVEN"}
StepTexts == {<<"a">>, <<>>, <<"call", " ", "when", " ", "a">>, <<"it", "'", "s">>}
StepInputs == [type : StepTypes, text : StepTexts]
StepLists == UNION {[1..n -> StepInputs] : n \in 0..MaxSteps}

\* the definition texts handed to formatScenarioDefinition and
\* extractScenarioSteps, written line by line
LinePrefixes == {<<>>, <<" ", " ", "call", " ">>, <<"call", " ", "call", " ">>}
LineKeywords == {"given", "and", "GIVEN"}
LineTexts == {<<"a">>, <<>>, <<"call", " ", "when", " ", "a">>}
StepLineInputs ==
    {p \o <<k, " ", "'">> \o t \o <<"'">> :
        p \in LinePrefixes, k \in LineKeywords, t \in LineTexts}
OtherLineInputs ==
    {<<"end">>, <<"x">>,
     <<"scenario", " ", "'", "Login", "'", " ", "do">>,
     <<"scenario", " ", "when", " ", "'", "a", "'">>}
LineInputs == StepLineInputs \cup OtherLineInputs
DefinitionInputs ==
    {Join(lines, "\n") : lines \in UNION {[1..n -> LineInputs] : n \in 0..MaxLines}}

\* no structured scenario: the input was a definition text
NoStructured == [name |-> <<>>, steps |-> <<>>]

InitCodec ==
    /\ AuxIdle
    /\ cache = << >>
    /\ ttl = DefaultTTL
    /\ now = 0
    /\ nTicks = 0
    /\ enableCache = TRUE
    /\ OrchestratorIdle
    /\ probe = NoProbe
    /\ derived = NoDerived
    /\ readOnlyMode = FALSE
    /\ server = "lowlevel"
    /\ tool = NoTool
    /\ tagsRun = NoTagsRun
    /\ handlers = "typed"
    /\ run = NoRun
    /\ store = NoStore
    /\ \/ \E n \in ScenarioNames, st \in StepLists :
             codec = [kind |-> "structured", in |-> [name |-> n, steps |-> st],
                      stage |-> "input", text |-> <<>>, prev |-> <<>>,
                      nFormat |-> 0, out |-> NoStructured]
       \/ \E x \in DefinitionInputs :
             codec = [kind |-> "text", in |-> NoStructured,
                      stage |-> "text", text |-> x, prev |-> <<>>,
                      nFormat |-> 0, out |-> NoStructured]

\* stepsToScenarioDefinition(name, steps)
Generate ==
    /\ codec.kind = "structured" /\ codec.stage = "input"
    /\ codec' = [codec EXCEPT
                   !.stage = "text",
                   !.text = stepsToScenarioDefinition(codec.in.name, codec.in.steps)]
    /\ UNCHANGED <<coreVars, readOnlyMode, server, tool, tagsRun, handlers, run, store, auxVars>>

\* formatScenarioDefinition(text)
Format ==
    /\ codec.kind # "none" /\ codec.stage = "text"
    /\ codec.nFormat < MaxFormats
    /\ codec' = [codec EXCEPT
                   !.prev = codec.text,
                   !.text = formatScenarioDefinition(codec.text),
                   !.nFormat = codec.nFormat + 1]
    /\ UNCHANGED <<coreVars, readOnlyMode, server, tool, tagsRun, handlers, run, store, auxVars>>

\* scenarioToStructured(text)
Parse ==
    /\ codec.kind # "none" /\ codec.stage = "text"
    /\ codec' = [codec EXCEPT
                   !.stage = "parsed",
                   !.out = scenarioToStructured(codec.text)]
    /\ UNCHANGED <<coreVars, readOnlyMode, server, tool, tagsRun, handlers, run, store, auxVars>>

NextCodec == Generate \/ Format \/ Parse

SpecCodec == InitCodec /\ [][NextCodec]_vars

-----------------------------------------------------------------------------
(* The tool dispatch: the CallToolRequestSchema handler of the low-level   *)
(* server (index.ts) and the registration of the tools with McpServer      *)
(*                                                                         *)
(* A tool name is a sequence of tokens: the prefixes "mcp_" and            *)
(* "cucumber_studio_" and the rest of the name.                            *)

ReadTools == {"get_projects", "get_project", "get_scenarios", "get_scenario",
              "find_scenarios_by_tags", "get_folders"}
WriteTools == {"create_scenario", "update_scenario", "add_tag", "add_tags",
               "update_tag", "delete_tag", "delete_scenario", "create_folder",
               "update_folder", "delete_folder"}

ToolName(t) == <<"cucumber_studio_", t>>
READ_OPERATIONS == {ToolName(t) : t \in ReadTools}
WRITE_OPERATIONS == {ToolName(t) : t \in WriteTools}

\* the first prefix of 'mcp_cucumber_studio_', 'mcp_' the name starts with is cut
normalizeToolName(name) ==
    IF StartsWith(name, <<"mcp_", "cucumber_studio_">>) THEN SubSeq(name, 3, Len(name))
    ELSE IF StartsWith(name, <<"mcp_">>) THEN SubSeq(name, 2, Len(name))
    ELSE name

\* a check that lets every operation through
isOperationAllowed_AllowsAll(toolName, readOnly) == TRUE

isOperationAllowed(toolName, readOnly) ==
    IF toolName \in READ_OPERATIONS THEN TRUE
    ELSE IF toolName \in WRITE_OPERATIONS /\ readOnly THEN FALSE
    ELSE TRUE

\* registerTool: the tools McpServer knows after the registrations
RegisteredTools(readOnly) ==
    {n \in READ_OPERATIONS \cup WRITE_OPERATIONS :
        ~(n \in WRITE_OPERATIONS /\ readOnly)}

\* the handler the switch (the registration) routes a name to, "none" if none
HandlerOf(toolName) ==
    IF toolName \in READ_OPERATIONS \cup WRITE_OPERATIONS THEN toolName[2] ELSE "none"

\* the names a host may call a tool by
Spellings(t) ==
    {<<"cucumber_studio_", t>>,
     <<"mcp_", "cucumber_studio_", "cucumber_studio_", t>>,
     <<"mcp_", "cucumber_studio_", t>>,
     <<"mcp_", t>>,
     <<t>>}

\* how a tool call is decided before any handler runs
Dispatch(srv, name, readOnly) ==
    IF srv = "lowlevel"
    THEN LET toolName == normalizeToolName(name)
         IN  IF ~isOperationAllowed(toolName, readOnly)
             THEN [response |-> "not allowed", handler |-> "none"]
             ELSE IF HandlerOf(toolName) = "none"
                  THEN [response |-> "unknown tool", handler |-> "none"]
                  ELSE [response |-> "handled", handler |-> HandlerOf(toolName)]
    ELSE IF name \in RegisteredTools(readOnly)
         THEN [response |-> "handled", handler |-> HandlerOf(name)]
         ELSE [response |-> "not registered", handler |-> "none"]

InitTools ==
    /\ AuxIdle
    /\ cache = << >>
    /\ ttl = DefaultTTL
    /\ now = 0
    /\ nTicks = 0
    /\ enableCache = TRUE
    /\ OrchestratorIdle
    /\ probe = NoProbe
    /\ derived = NoDerived
    /\ codec = NoCodec
    /\ readOnlyMode \in BOOLEAN
    /\ server \in {"lowlevel", "mcp"}
    /\ tool = NoTool
    /\ tagsRun = NoTagsRun
    /\ handlers = "typed"
    /\ run = NoRun
    /\ store = NoStore

\* what a handler may hand back to its caller
HandlerOutcomes == {"returns", "throws", "nothing", "no content list"}

\* what leaves the server once the handler has ended.  The low-level handler
\* turns a throw (handleError), a missing response and a response without a
\* content array into an error response; the wrapper of registerTool turns a
\* throw into an error response and returns every result as it is.
Respond(srv, outcome) ==
    IF outcome = "throws" THEN [response |-> "error", content |-> "text"]
    ELSE IF outcome = "returns" THEN [response |-> "success", content |-> "text"]
    ELSE IF srv = "lowlevel" THEN [response |-> "error", content |-> "text"]
    ELSE [response |-> "success",
          content |-> IF outcome = "nothing" THEN "nothing" ELSE "no list"]

\* a tool call that is answered without running a handler: createErrorResponse
\* in the low-level handler, the SDK's own answer for a name McpServer does not
\* know
RejectTool(name) ==
    /\ Dispatch(server, name, readOnlyMode).handler = "none"
    /\ tool' = [name |-> name,
                response |-> Dispatch(server, name, readOnlyMode).response,
                handler |-> "none", net |-> 0,
                content |-> IF server = "lowlevel" THEN "text" ELSE "sdk"]
    /\ UNCHANGED <<coreVars, codec, readOnlyMode, server, tagsRun, handlers, run, store, auxVars>>

\* a tool call that runs its handler: the handler makes n upstream calls and
\* ends with one of the outcomes
HandleTool(name, n, outcome) ==
    /\ Dispatch(server, name, readOnlyMode).handler # "none"
    /\ tool' = [name |-> name,
                response |-> Respond(server, outcome).response,
                handler |-> Dispatch(server, name, readOnlyMode).handler,
                net |-> n,
                content |-> Respond(server, outcome).content]
    /\ UNCHANGED <<coreVars, codec, readOnlyMode, server, tagsRun, handlers, run, store, auxVars>>

NextTools ==
    \/ \E t \in ReadTools \cup WriteTools : \E name \in Spellings(t) : RejectTool(name)
    \/ \E t \in ReadTools \cup WriteTools : \E name \in Spellings(t) :
          \E n \in 0..MaxHandlerCalls, outcome \in HandlerOutcomes :
              HandleTool(name, n, outcome)

SpecTools == InitTools /\ [][NextTools]_vars

-----------------------------------------------------------------------------
(* addTagsToScenario: one call, tag by tag.  The exact-key api-client      *)
(* collects the failures and goes on; the earlier api-client re-throws the *)
(* first one.                                                              *)

TagKeys == {"smoke", "wip"}
TagLists == UNION {[1..n -> TagKeys] : n \in 0..MaxTags}

\* the response of the upstream to the POST that adds the i-th tag
TagResponse(tag, i) == [kind |-> "json", ver |-> i, tag |-> tag]

TotalFailure == [kind |-> "error", class |-> "Failed to add any tags", status |-> 0]

\* an end of the call that throws as soon as one tag failed
AddTagsOutcome_ThrowsOnAnyError(results, errors) ==
    IF Len(errors) > 0
    THEN [outcome |-> "throw", value |-> TotalFailure]
    ELSE [outcome |-> "return", value |-> results]

\* api-client.ts lines 306-318: after the loop
AddTagsOutcome(results, errors) ==
    IF Len(errors) > 0 /\ Len(results) = 0
    THEN [outcome |-> "throw", value |-> TotalFailure]
    ELSE [outcome |-> "return", value |-> results]

InitTags ==
    /\ AuxIdle
    /\ cache = << >>
    /\ ttl = SimpleCacheTTL(CacheTTLSeconds * 1000)
    /\ now = 0
    /\ nTicks = 0
    /\ enableCache \in BOOLEAN
    /\ variant \in {"exact", "substring"}
    /\ upVer = 0
    /\ inflight = {}
    /\ nCalls = 0
    /\ last = NoCall
    /\ staleKeys = {}
    /\ probe = NoProbe
    /\ derived = NoDerived
    /\ codec = NoCodec
    /\ readOnlyMode = FALSE
    /\ server = "lowlevel"
    /\ tool = NoTool
    /\ handlers = "typed"
    /\ run = NoRun
    /\ store = NoStore
    /\ \E tags \in TagLists :
          tagsRun = [pc |-> "called", tags |-> tags, attempts |-> <<>>, fate |-> <<>>,
                     results |-> <<>>, errors |-> <<>>,
                     outcome |-> "none", value |-> <<>>]

\* the end of the call once the loop is over (the tag just tried was the last)
EndOfLoop(t) ==
    IF Len(t.attempts) < Len(t.tags) THEN t
    ELSE [t EXCEPT !.pc = "done",
                   !.outcome = AddTagsOutcome(t.results, t.errors).outcome,
                   !.value = AddTagsOutcome(t.results, t.errors).value]

\* the call starts; with no tag it ends at once
StartAddTags ==
    /\ tagsRun.pc = "called"
    /\ tagsRun' = EndOfLoop([tagsRun EXCEPT !.pc = "loop"])
    /\ UNCHANGED <<coreVars, codec, readOnlyMode, server, tool, handlers, run, store, auxVars>>

\* await addTagToScenario(...) returns: the POST went through the request layer
AddTagSucceeds ==
    /\ tagsRun.pc = "loop"
    /\ LET i == Len(tagsRun.attempts) + 1
           req == addTagToScenario(<<"1">>, <<"7">>)
           body == TagResponse(tagsRun.tags[i], i)
       IN  /\ tagsRun' = EndOfLoop([tagsRun EXCEPT
                            !.attempts = Append(tagsRun.attempts, tagsRun.tags[i]),
                            !.fate = Append(tagsRun.fate, "ok"),
                            !.results = Append(tagsRun.results,
                                               ReturnResponse(body).value)])
           /\ cache' = AfterResponse(cache, variant, req.method, req.path, body,
                                     now, enableCache)
           /\ upVer' = upVer + 1
    /\ UNCHANGED <<ttl, now, enableCache, variant, inflight, nCalls, last, staleKeys,
                   probe, nTicks, derived,
                   codec, readOnlyMode, server, tool, handlers, run, store, auxVars>>

\* await addTagToScenario(...) throws: the error is collected and the loop goes
\* on (api-client.ts lines 297-304), or thrown again (the earlier api-client)
AddTagFails(error) ==
    /\ tagsRun.pc = "loop"
    /\ LET i == Len(tagsRun.attempts) + 1
           tried == [tagsRun EXCEPT
                       !.attempts = Append(tagsRun.attempts, tagsRun.tags[i]),
                       !.fate = Append(tagsRun.fate, "fail")]
       IN  tagsRun' =
             IF variant = "exact"
             THEN EndOfLoop([tried EXCEPT
                               !.errors = Append(tagsRun.errors,
                                                 [tag |-> tagsRun.tags[i],
                                                  error |-> CatchBlock(error).value])])
             ELSE [tried EXCEPT !.pc = "done", !.outcome = "throw",
                                !.value = CatchBlock(error).value]
    /\ UNCHANGED <<coreVars, codec, readOnlyMode, server, tool, handlers, run, store, auxVars>>

NextTags ==
    \/ StartAddTags
    \/ AddTagSucceeds
    \/ \E error \in {NoResponseError} \cup {ResponseError(st) : st \in Statuses} :
          AddTagFails(error)

SpecTags == InitTags /\ [][NextTags]_vars

-----------------------------------------------------------------------------
(* The tool handlers (handlers.ts, and their earlier variant) on top of    *)
(* the request layer.  A handler runs from one await to the next; each     *)
(* await is one makeCucumberStudioRequest call, which is served from the   *)
(* cache or answered by the upstream.                                      *)

\* a scenario of a JSON:API payload: data.id, attributes.name,
\* attributes.definition and, once formatted, attributes.structured
Scenario(id, name, definition) ==
    [id |-> id, name |-> name, definition |-> definition,
     hasStructured |-> FALSE, structured |-> NoStructured]

\* response.data whose data member is one object, or an array
ObjectBody(v, sc) == [kind |-> "json", ver |-> v, isArray |-> FALSE, data |-> <<sc>>]
ArrayBody(v, scs) == [kind |-> "json", ver |-> v, isArray |-> TRUE, data |-> scs]
\* the response to a tag request: a tag, which has no definition
TagBody(v) == ObjectBody(v, Scenario(<<"9">>, <<>>, <<>>))

\* the map callback of formatScenariosInResponse
FormatScenario(sc) ==
    IF sc.definition # <<>>
    THEN [sc EXCEPT !.definition = formatScenarioDefinition(sc.definition),
                    !.hasStructured = TRUE,
                    !.structured = scenarioToStructured(sc.definition)]
    ELSE sc

\* handlers.ts lines 114-151, and lines 628-656 of the earlier variant, which
\* returns the payload as it is unless data.data is an array
formatScenariosInResponse(hv, data) ==
    IF ~Truthy(data) THEN data
    ELSE IF hv = "earlier" /\ ~data.isArray THEN data
    ELSE IF Len(data.data) = 0 THEN data
    ELSE [data EXCEPT !.data = [i \in 1..Len(data.data) |-> FormatScenario(data.data[i])]]

\* the inputs the tools are called with
ProjectId == <<"1">>
ExistingId == <<"7">>
CreatedId == <<"8">>
InitialDefinition ==
    stepsToScenarioDefinition(<<"Login">>, <<[type |-> "given", text |-> <<"a">>]>>)
GivenDefinition ==
    stepsToScenarioDefinition(<<"Login">>, <<[type |-> "then", text |-> <<"b">>]>>)
ToolStepLists ==
    {<<>>,
     <<[type |-> "given", text |-> <<"a">>]>>,
     <<[type |-> "when", text |-> <<>>]>>,
     <<[type |-> "then", text |-> <<"it", "'", "s">>]>>}
ToolTagKeys == {"smoke", "wip"}
ToolTagLists == UNION {[1..n -> ToolTagKeys] : n \in 0..MaxToolTags}
\* missing: the required field the input lacks, "none" if it has them all
NoInput == [name |-> <<>>, steps |-> <<>>, definition |-> <<>>, tags |-> <<>>,
            include |-> TRUE, missing |-> "none"]
ScenarioTools == {"get_scenario", "get_scenarios", "find_scenarios_by_tags",
                  "create_scenario", "update_scenario",
                  "add_tag", "add_tags", "update_tag", "delete_tag"}
\* the fields the tool's schema requires, which the earlier handlers test one by
\* one before their first await
RequiredFields(t) ==
    CASE t = "create_scenario" -> {"project_id", "name"}
      [] t = "get_scenarios" -> {"project_id"}
      [] t = "find_scenarios_by_tags" -> {"project_id", "tag_key", "tag_value"}
      [] t = "add_tag" -> {"project_id", "scenario_id", "key", "value"}
      [] t = "add_tags" -> {"project_id", "scenario_id", "tags"}
      [] t = "update_tag" -> {"project_id", "scenario_id", "tag_id", "key", "value"}
      [] t = "delete_tag" -> {"project_id", "scenario_id", "tag_id"}
      [] OTHER -> {"project_id", "scenario_id"}

\* the inputs that have every required field
CompleteInputs(t) ==
    CASE t = "create_scenario" ->
            {[NoInput EXCEPT !.name = <<"Checkout">>, !.steps = st, !.tags = tg] :
                st \in ToolStepLists, tg \in ToolTagLists}
      [] t = "update_scenario" ->
            {[NoInput EXCEPT !.name = n, !.steps = st, !.definition = d, !.tags = tg] :
                n \in {<<>>, <<"Login">>},
                st \in {<<>>, <<[type |-> "given", text |-> <<"a">>]>>},
                d \in {<<>>, GivenDefinition}, tg \in ToolTagLists}
      [] t \in {"get_scenario", "get_scenarios"} ->
            {[NoInput EXCEPT !.include = i] : i \in BOOLEAN}
      [] t = "add_tags" -> {[NoInput EXCEPT !.tags = tg] : tg \in ToolTagLists}
      [] OTHER -> {NoInput}

ToolInputs(t) ==
    CompleteInputs(t) \cup {[NoInput EXCEPT !.missing = f] : f \in RequiredFields(t)}

\* findScenariosByTags(projectId, 'smoke', '1', true)
findScenariosByTags(projectId) ==
    Request("GET", ProjectPathOf(projectId)
                     \o <<"/", "scenarios", "/", "find_by_tags", "?",
                          "key=smoke", "&", "value=1", "&", "include=tags">>)

\* a create_scenario that writes the definition before it adds the tags
StagesOf_PatchBeforeTags(hv, t) ==
    IF t = "create_scenario" THEN <<"create", "patch", "tags", "refetch">>
    ELSE IF t = "update_scenario" THEN <<"name", "patch", "tags", "refetch">>
    ELSE IF t \in {"add_tag", "update_tag", "delete_tag"} THEN <<"tagop", "refetch">>
    ELSE IF t = "add_tags" THEN <<"tags", "refetch">>
    ELSE <<"read">>

\* the awaits of a handler, in the order of its code
StagesOf(hv, t) ==
    CASE t = "create_scenario" -> <<"create", "tags", "patch", "refetch">>
      [] t = "update_scenario" ->
            IF hv = "typed" THEN <<"name", "patch", "tags", "refetch">>
            ELSE <<"name", "tags", "patch", "refetch">>
      [] t \in {"add_tag", "update_tag", "delete_tag"} -> <<"tagop", "refetch">>
      [] t = "add_tags" -> <<"tags", "refetch">>
      [] OTHER -> <<"read">>

\* needsAttributeUpdate of handleUpdateScenario
NeedsAttributeUpdate(input) ==
    input.name # <<>> \/ input.steps # <<>> \/ input.definition # <<>>

\* the conditions under which a handler reaches an await
Needed(hv, r, stage) ==
    CASE stage = "tags" -> r.tagsDone < Len(r.input.tags)
      [] stage = "name" -> r.input.steps # <<>> /\ r.input.name = <<>>
      [] stage = "patch" ->
            IF r.tool = "create_scenario" THEN r.input.steps # <<>>
            ELSE NeedsAttributeUpdate(r.input)
      [] stage = "refetch" ->
            IF r.tool = "create_scenario"
            THEN r.input.tags # <<>> \/ r.input.steps # <<>>
            ELSE IF r.tool = "update_scenario" /\ hv = "typed"
                 THEN r.input.tags # <<>> \/ ~Truthy(r.updateResponse)
                 ELSE TRUE
      [] OTHER -> TRUE

\* the inputs a handler throws on before any await; an input that lacks a
\* field its schema requires does not reach a typed handler
ThrowsAtOnce(hv, t, input) ==
    \/ input.missing # "none"
    \/ t = "update_scenario" /\ ~NeedsAttributeUpdate(input) /\ input.tags = <<>>
    \/ t = "add_tags" /\ hv = "earlier" /\ input.tags = <<>>

HandlerError == [kind |-> "error", payload |-> Null]

\* the handler ends with an error response
Throw(r) == [r EXCEPT !.pc = "done", !.result = HandlerError]

\* the handler returns: the formatted re-fetch or read, or the response of the
\* create or update call
Finish(hv, r) ==
    LET lastStage == StagesOf(hv, r.tool)[r.at]
        body == IF lastStage \in {"refetch", "read"} THEN r.value
                ELSE IF r.tool = "create_scenario" THEN r.createResponse
                ELSE r.updateResponse
        formatted == IF r.tool = "create_scenario" /\ hv = "earlier" /\ lastStage # "refetch"
                     THEN body
                     ELSE formatScenariosInResponse(hv, body)
    IN  [r EXCEPT !.pc = "done",
                  !.raw = body,
                  !.origin = IF lastStage \in {"refetch", "read"} THEN r.origin ELSE "mutation",
                  !.result = [kind |-> "success", payload |-> formatted]]

\* the next await of the handler, or its end
RECURSIVE NextStage(_, _, _)
NextStage(hv, r, i) ==
    IF i > Len(StagesOf(hv, r.tool)) THEN 0
    ELSE IF Needed(hv, r, StagesOf(hv, r.tool)[i]) THEN i
    ELSE NextStage(hv, r, i + 1)

Advance(hv, r) ==
    LET from == IF r.at > 0 /\ StagesOf(hv, r.tool)[r.at] = "tags" THEN r.at ELSE r.at + 1
        i == NextStage(hv, r, from)
    IN  IF i = 0 THEN Finish(hv, r)
        ELSE [r EXCEPT !.at = i, !.pc = StagesOf(hv, r.tool)[i]]

\* one makeCucumberStudioRequest call, which the upstream would answer with body
Exchange(req, body) ==
    LET lk == CacheLookup(cache, req.method, req.path, now, ttl, enableCache)
    IN  IF Truthy(lk.value)
        THEN [cache |-> lk.cache, value |-> ReturnResponse(lk.value).value, net |-> 0]
        ELSE [cache |-> AfterResponse(lk.cache, variant, req.method, req.path, body,
                                      now, enableCache),
              value |-> ReturnResponse(body).value, net |-> 1]

\* the upstream's scenarios, as it returns them
StoredScenario(id) == Scenario(id, store[id].name, store[id].definition)
StoredScenarios ==
    IF store[CreatedId].exists
    THEN <<StoredScenario(ExistingId), StoredScenario(CreatedId)>>
    ELSE <<StoredScenario(ExistingId)>>

InitHandlers ==
    /\ AuxIdle
    /\ cache = << >>
    /\ ttl = SimpleCacheTTL(CacheTTLSeconds * 1000)
    /\ now = 0
    /\ nTicks = 0
    /\ enableCache \in BOOLEAN
    /\ variant \in {"exact", "substring"}
    /\ upVer = 0
    /\ inflight = {}
    /\ nCalls = 0
    /\ last = NoCall
    /\ staleKeys = {}
    /\ probe = NoProbe
    /\ derived = NoDerived
    /\ codec = NoCodec
    /\ readOnlyMode = FALSE
    /\ server = "lowlevel"
    /\ tool = NoTool
    /\ tagsRun = NoTagsRun
    /\ handlers \in {"typed", "earlier"}
    /\ run = NoRun
    /\ store = (ExistingId :> [exists |-> TRUE, name |-> <<"Login">>,
                               definition |-> InitialDefinition])
               @@ (CreatedId :> [exists |-> FALSE, name |-> <<>>, definition |-> <<>>])

\* a tool is called: its handler runs up to its first await
StartTool(t, input) ==
    /\ run.pc \in {"none", "done"}
    /\ run.n < MaxRuns
    /\ t = "create_scenario" => ~store[CreatedId].exists
    /\ LET r == [pc |-> "start", n |-> run.n + 1, tool |-> t, input |-> input, at |-> 0,
                 sid |-> ExistingId, name |-> input.name, log |-> <<>>,
                 tagsDone |-> 0, tagOk |-> 0, tagErr |-> 0, tagLog |-> <<>>,
                 createResponse |-> Null, updateResponse |-> Null, value |-> Null,
                 mutVer |-> 0, origin |-> "none", raw |-> Null,
                 result |-> [kind |-> "none", payload |-> Null]]
       IN  run' = IF ThrowsAtOnce(handlers, t, input) THEN Throw(r)
                  ELSE Advance(handlers, r)
    /\ UNCHANGED <<coreVars, codec, readOnlyMode, server, tool, tagsRun, handlers, store, auxVars>>

\* await createScenario(project_id, scenarioData); the handler throws if the
\* response holds no id (lines 246-250)
CallCreate(withId) ==
    /\ run.pc = "create"
    /\ LET req == createScenario(ProjectId)
           created == [exists |-> TRUE, name |-> run.input.name, definition |-> <<>>]
           x == Exchange(req, ObjectBody(upVer + 1,
                             Scenario(IF withId THEN CreatedId ELSE <<>>,
                                      created.name, <<>>)))
           r == [run EXCEPT !.sid = x.value.data[1].id,
                            !.createResponse = x.value,
                            !.log = Append(run.log, req),
                            !.mutVer = upVer + 1]
       IN  /\ store' = [store EXCEPT ![CreatedId] = created]
           /\ upVer' = upVer + 1
           /\ cache' = x.cache
           /\ run' = IF r.sid = <<>> THEN Throw(r) ELSE Advance(handlers, r)
    /\ UNCHANGED <<ttl, now, enableCache, variant, inflight, nCalls, last, staleKeys,
                   probe, nTicks, derived,
                   codec, readOnlyMode, server, tool, tagsRun, handlers, auxVars>>

\* the end of addTagsToScenario once every tag was tried
AfterTag(r) ==
    IF r.tagsDone = Len(r.input.tags)
       /\ AddTagsOutcome(SubSeq(r.input.tags, 1, r.tagOk),
                         SubSeq(r.input.tags, 1, r.tagErr)).outcome = "throw"
    THEN Throw(r)
    ELSE Advance(handlers, r)

\* await addTagToScenario(...) inside addTagsToScenario: the tag is added
CallAddTag ==
    /\ run.pc = "tags"
    /\ LET req == addTagToScenario(ProjectId, run.sid)
           x == Exchange(req, TagBody(upVer + 1))
       IN  /\ upVer' = upVer + 1
           /\ cache' = x.cache
           /\ run' = AfterTag([run EXCEPT !.tagsDone = run.tagsDone + 1,
                                          !.tagOk = run.tagOk + 1,
                                          !.tagLog = Append(run.tagLog,
                                              run.input.tags[run.tagsDone + 1]),
                                          !.log = Append(run.log, req),
                                          !.mutVer = upVer + 1])
    /\ UNCHANGED <<ttl, now, enableCache, variant, inflight, nCalls, last, staleKeys,
                   probe, nTicks, derived,
                   codec, readOnlyMode, server, tool, tagsRun, handlers, store, auxVars>>

\* the addition fails: the exact-key api-client goes on to the next tag, the
\* earlier one throws
CallAddTagFails ==
    /\ run.pc = "tags"
    /\ LET req == addTagToScenario(ProjectId, run.sid)
           r == [run EXCEPT !.tagsDone = run.tagsDone + 1,
                            !.tagErr = run.tagErr + 1,
                            !.tagLog = Append(run.tagLog,
                                              run.input.tags[run.tagsDone + 1]),
                            !.log = Append(run.log, req)]
       IN  run' = IF variant = "exact" THEN AfterTag(r) ELSE Throw(r)
    /\ UNCHANGED <<coreVars, codec, readOnlyMode, server, tool, tagsRun, handlers, store, auxVars>>

\* await getScenario(project_id, scenario_id, false), for the scenario's name
CallGetName ==
    /\ run.pc = "name"
    /\ LET req == getScenario(ProjectId, run.sid, FALSE)
           x == Exchange(req, ObjectBody(upVer, StoredScenario(run.sid)))
           r == [run EXCEPT !.name = x.value.data[1].name,
                            !.log = IF x.net = 1 THEN Append(run.log, req) ELSE run.log]
       IN  /\ cache' = x.cache
           /\ run' = IF r.name = <<>> THEN Throw(r) ELSE Advance(handlers, r)
    /\ UNCHANGED <<ttl, now, enableCache, variant, upVer, inflight, nCalls, last,
                   staleKeys, probe, nTicks, derived,
                   codec, readOnlyMode, server, tool, tagsRun, handlers, store, auxVars>>

\* await updateScenario(project_id, scenario_id, updateData)
CallPatch ==
    /\ run.pc = "patch"
    /\ LET req == updateScenario(ProjectId, run.sid)
           id == run.sid
           definition ==
               IF run.input.steps # <<>>
               THEN stepsToScenarioDefinition(run.name, run.input.steps)
               ELSE IF run.tool = "update_scenario" /\ run.input.definition # <<>>
                    THEN run.input.definition
                    ELSE store[id].definition
           name == IF run.tool = "update_scenario" /\ run.input.name # <<>>
                   THEN run.input.name ELSE store[id].name
           x == Exchange(req, ObjectBody(upVer + 1, Scenario(id, name, definition)))
       IN  /\ store' = [store EXCEPT ![id] = [exists |-> TRUE, name |-> name,
                                              definition |-> definition]]
           /\ upVer' = upVer + 1
           /\ cache' = x.cache
           /\ run' = Advance(handlers,
                             [run EXCEPT !.updateResponse = x.value,
                                         !.log = Append(run.log, req),
                                         !.mutVer = upVer + 1])
    /\ UNCHANGED <<ttl, now, enableCache, variant, inflight, nCalls, last, staleKeys,
                   probe, nTicks, derived,
                   codec, readOnlyMode, server, tool, tagsRun, handlers, auxVars>>

\* the request of add_tag, update_tag and delete_tag
TagRequest(t, sid) ==
    CASE t = "add_tag" -> addTagToScenario(ProjectId, sid)
      [] t = "update_tag" -> updateTag(ProjectId, sid, <<"9">>)
      [] OTHER -> deleteTag(ProjectId, sid, <<"9">>)

\* await addTagToScenario / updateTag / deleteTag
CallTagOp ==
    /\ run.pc = "tagop"
    /\ LET req == TagRequest(run.tool, run.sid)
           x == Exchange(req, TagBody(upVer + 1))
       IN  /\ upVer' = upVer + 1
           /\ cache' = x.cache
           /\ run' = Advance(handlers, [run EXCEPT !.log = Append(run.log, req),
                                                   !.mutVer = upVer + 1])
    /\ UNCHANGED <<ttl, now, enableCache, variant, inflight, nCalls, last, staleKeys,
                   probe, nTicks, derived,
                   codec, readOnlyMode, server, tool, tagsRun, handlers, store, auxVars>>

\* await getScenario(project_id, scenarioId, true): the final re-fetch
CallRefetch ==
    /\ run.pc = "refetch"
    /\ LET req == getScenario(ProjectId, run.sid, TRUE)
           x == Exchange(req, ObjectBody(upVer, StoredScenario(run.sid)))
       IN  /\ cache' = x.cache
           /\ run' = Advance(handlers,
                             [run EXCEPT !.value = x.value,
                                         !.origin = IF x.net = 1 THEN "network" ELSE "cache",
                                         !.log = IF x.net = 1 THEN Append(run.log, req)
                                                 ELSE run.log])
    /\ UNCHANGED <<ttl, now, enableCache, variant, upVer, inflight, nCalls, last,
                   staleKeys, probe, nTicks, derived,
                   codec, readOnlyMode, server, tool, tagsRun, handlers, store, auxVars>>

\* the request of the read tools
ReadRequest(t, input) ==
    CASE t = "get_scenario" -> getScenario(ProjectId, ExistingId, input.include)
      [] t = "get_scenarios" -> getScenarios(ProjectId, input.include)
      [] OTHER -> findScenariosByTags(ProjectId)

\* await getScenario / getScenarios / findScenariosByTags of a read tool
CallRead ==
    /\ run.pc = "read"
    /\ LET req == ReadRequest(run.tool, run.input)
           body == IF run.tool = "get_scenario"
                   THEN ObjectBody(upVer, StoredScenario(ExistingId))
                   ELSE ArrayBody(upVer, StoredScenarios)
           x == Exchange(req, body)
       IN  /\ cache' = x.cache
           /\ run' = Advance(handlers,
                             [run EXCEPT !.value = x.value,
                                         !.origin = IF x.net = 1 THEN "network" ELSE "cache",
                                         !.log = IF x.net = 1 THEN Append(run.log, req)
                                                 ELSE run.log])
    /\ UNCHANGED <<ttl, now, enableCache, variant, upVer, inflight, nCalls, last,
                   staleKeys, probe, nTicks, derived,
                   codec, readOnlyMode, server, tool, tagsRun, handlers, store, auxVars>>

\* the request the handler is waiting for
PendingRequest(r) ==
    CASE r.pc = "create" -> createScenario(ProjectId)
      [] r.pc = "name" -> getScenario(ProjectId, r.sid, FALSE)
      [] r.pc = "patch" -> updateScenario(ProjectId, r.sid)
      [] r.pc = "tagop" -> TagRequest(r.tool, r.sid)
      [] r.pc = "refetch" -> getScenario(ProjectId, r.sid, TRUE)
      [] OTHER -> ReadRequest(r.tool, r.input)

\* the call reaches the network and fails: makeCucumberStudioRequest throws, and
\* so does the handler (the error becomes an error response)
CallFails ==
    /\ run.pc \in {"create", "name", "patch", "tagop", "refetch", "read"}
    /\ LET req == PendingRequest(run)
           lk == CacheLookup(cache, req.method, req.path, now, ttl, enableCache)
       IN  /\ ~Truthy(lk.value)
           /\ cache' = lk.cache
           /\ run' = Throw([run EXCEPT !.log = Append(run.log, req)])
    /\ UNCHANGED <<ttl, now, enableCache, variant, upVer, inflight, nCalls, last,
                   staleKeys, probe, nTicks, derived,
                   codec, readOnlyMode, server, tool, tagsRun, handlers, store, auxVars>>

NextHandlers ==
    \/ \E t \in ScenarioTools : \E input \in ToolInputs(t) : StartTool(t, input)
    \/ \E withId \in BOOLEAN : CallCreate(withId)
    \/ CallAddTag
    \/ CallAddTagFails
    \/ CallGetName
    \/ CallPatch
    \/ CallTagOp
    \/ CallRefetch
    \/ CallRead
    \/ CallFails

SpecHandlers == InitHandlers /\ [][NextHandlers]_vars

-----------------------------------------------------------------------------
(* The configuration (config.ts): getConfigForEnvironment, run once when   *)
(* the module is loaded                                                    *)

\* parseBoolean(value, defaultValue)
parseBoolean(value, defaultValue) ==
    IF value = Undefined THEN defaultValue
    ELSE ToLowerCase(value[1]) \in {"true", "1", "yes", "y"}

\* parseLogLevel(level)
parseLogLevel(level) ==
    IF level = Undefined THEN "INFO"
    ELSE CASE ToLowerCase(level[1]) = "error" -> "ERROR"
           [] ToLowerCase(level[1]) = "warn" -> "WARN"
           [] ToLowerCase(level[1]) = "info" -> "INFO"
           [] ToLowerCase(level[1]) = "debug" -> "DEBUG"
           [] OTHER -> "INFO"

\* getConfigForEnvironment(), on process.env = e
getConfigForEnvironment(e) ==
    LET env == IF e.NODE_ENV = Undefined THEN "development" ELSE e.NODE_ENV[1]
        baseConfig ==
            [loaded |-> TRUE,
             logLevel |-> parseLogLevel(e.LOG_LEVEL),
             enableRequestLogging |-> parseBoolean(e.ENABLE_REQUEST_LOGGING, TRUE),
             enableResponseLogging |-> parseBoolean(e.ENABLE_RESPONSE_LOGGING, FALSE),
             enableCache |-> parseBoolean(e.ENABLE_CACHE, TRUE),
             sanitizeErrorMessages |-> parseBoolean(e.SANITIZE_ERRORS, TRUE)]
    IN  IF e.LOG_LEVEL = Undefined
        THEN CASE env = "production" ->
                    [baseConfig EXCEPT !.logLevel = "ERROR",
                                       !.enableRequestLogging = FALSE,
                                       !.enableResponseLogging = FALSE,
                                       !.sanitizeErrorMessages = TRUE]
               [] env = "test" ->
                    [baseConfig EXCEPT !.logLevel = "DEBUG",
                                       !.enableCache = FALSE,
                                       !.enableRequestLogging = TRUE,
                                       !.enableResponseLogging = TRUE]
               [] OTHER ->
                    [baseConfig EXCEPT !.logLevel = "DEBUG",
                                       !.enableRequestLogging = TRUE,
                                       !.enableResponseLogging = TRUE,
                                       !.sanitizeErrorMessages = FALSE]
        ELSE baseConfig

\* the environments the process is started in
NodeEnvs == {Undefined, <<"production">>, <<"test">>, <<"development">>, <<"staging">>}
LogLevelTexts == {Undefined, <<"DEBUG">>}
BooleanTexts == {Undefined, <<"true">>, <<"TRUE">>, <<"no">>}
Environments ==
    [NODE_ENV : NodeEnvs, LOG_LEVEL : LogLevelTexts, ENABLE_CACHE : BooleanTexts,
     ENABLE_REQUEST_LOGGING : BooleanTexts, ENABLE_RESPONSE_LOGGING : BooleanTexts,
     SANITIZE_ERRORS : {Undefined, <<"false">>}]

InitConfig ==
    /\ cache = << >>
    /\ ttl = DefaultTTL
    /\ now = 0
    /\ nTicks = 0
    /\ enableCache = TRUE
    /\ OrchestratorIdle
    /\ probe = NoProbe
    /\ derived = NoDerived
    /\ AppIdle
    /\ environment \in Environments
    /\ config = NoConfig
    /\ handled = NoHandled

\* export const config = getConfigForEnvironment()
LoadConfig ==
    /\ ~config.loaded
    /\ config' = getConfigForEnvironment(environment)
    /\ UNCHANGED <<coreVars, appVars, environment, handled>>

NextConfig == LoadConfig

SpecConfig == InitConfig /\ [][NextConfig]_vars

-----------------------------------------------------------------------------
(* handleError (utils.ts, and its later copy, which reads                  *)
(* config.sanitizeErrorMessages)                                           *)
(*                                                                         *)
(* A message is a sequence of pieces of text.                              *)

\* the values a catch block can hand to handleError
PlainError(message) == [class |-> "Error", message |-> message, status |-> "",
                        errors |-> <<>>, hasErrors |-> FALSE]
\* an AxiosError with error.response: the status and response.data.errors
ApiError(status, hasErrors, errors) ==
    [class |-> "AxiosResponse", message |-> "Request failed", status |-> status,
     errors |-> errors, hasErrors |-> hasErrors]
\* an AxiosError with error.request and no response, and one with neither
NetworkError == [class |-> "AxiosRequest", message |-> "timeout of 30000ms exceeded",
                 status |-> "", errors |-> <<>>, hasErrors |-> FALSE]
ConfigurationError == [class |-> "AxiosSetup", message |-> "Invalid URL",
                       status |-> "", errors |-> <<>>, hasErrors |-> FALSE]
\* a thrown string, a thrown object with or without a message, any other value
ThrownString(text) == [class |-> "string", message |-> text, status |-> "",
                       errors |-> <<>>, hasErrors |-> FALSE]
ThrownObject(message) == [class |-> "object", message |-> message, status |-> "",
                          errors |-> <<>>, hasErrors |-> FALSE]
ThrownOther == [class |-> "other", message |-> "", status |-> "",
                errors |-> <<>>, hasErrors |-> FALSE]

\* err.title || err.detail || 'Unknown API error'
ApiErrorText(err) ==
    IF err.title # "" THEN err.title
    ELSE IF err.detail # "" THEN err.detail
    ELSE "Unknown API error"

\* apiErrors.map(...).join('; ')
RECURSIVE ApiErrorDetails(_)
ApiErrorDetails(errors) ==
    IF errors = <<>> THEN <<>>
    ELSE IF Len(errors) = 1 THEN <<ApiErrorText(errors[1])>>
    ELSE <<ApiErrorText(errors[1]), "; ">> \o ApiErrorDetails(Tail(errors))

\* the message for an error with a response: the status, then the details
ApiErrorMessage(error, context, withDetails) ==
    <<"API error ", context, " (Status: ", error.status, ")">>
        \o (IF withDetails /\ error.hasErrors /\ Len(error.errors) > 0
            THEN <<": ">> \o ApiErrorDetails(error.errors)
            ELSE <<>>)

\* the message before sanitization: detailedMessage (errorMessage in utils.ts)
DetailedMessage(utils, error, context, sanitize) ==
    CASE error.class = "Error" -> <<"Error ", context, ": ", error.message>>
      [] error.class = "AxiosResponse" ->
            ApiErrorMessage(error, context, utils = "utils.ts" \/ ~sanitize)
      [] error.class = "AxiosRequest" ->
            <<"Network error ", context, ": No response received">>
      [] error.class = "AxiosSetup" ->
            IF utils = "utils.ts"
            THEN <<"Request configuration error ", context>>
            ELSE <<"Request configuration error during ", context, ": ", error.message>>
      [] error.class = "string" -> <<"Error ", context, ": ", error.message>>
      [] error.class = "object" /\ error.message # "" ->
            <<"Error ", context, ": ", error.message>>
      [] OTHER -> <<"An error occurred while ", context>>

\* handleError(error, context): the text of the response it returns
handleError(utils, error, context, sanitize) ==
    IF utils = "utils.ts"
    THEN DetailedMessage(utils, error, context, sanitize)
    ELSE IF sanitize
         THEN <<"An error occurred while ", context, ". Check server logs for details.">>
         ELSE DetailedMessage(utils, error, context, sanitize)

\* the errors and contexts handleError is called with
ApiErrorLists ==
    {<<>>,
     <<[title |-> "Not found", detail |-> ""]>>,
     <<[title |-> "", detail |-> "scenario 7 is locked"]>>,
     <<[title |-> "Invalid", detail |-> "name is blank"], [title |-> "", detail |-> ""]>>}
ErrorInputs ==
    {PlainError("No attributes or tags provided for update."),
     NetworkError, ConfigurationError,
     ThrownString("boom"), ThrownObject("bad"), ThrownObject(""), ThrownOther,
     ApiError("500", FALSE, <<>>)}
    \cup {ApiError(st, TRUE, errs) : st \in {"404", "422"}, errs \in ApiErrorLists}
ErrorContexts == {"fetching scenarios", "executing cucumber_studio_get_scenario"}
ErrorEnvironments ==
    {[NoEnvironment EXCEPT !.NODE_ENV = n, !.SANITIZE_ERRORS = sn] :
        n \in {Undefined, <<"production">>}, sn \in {Undefined, <<"false">>}}

InitErrors ==
    /\ cache = << >>
    /\ ttl = DefaultTTL
    /\ now = 0
    /\ nTicks = 0
    /\ enableCache = TRUE
    /\ OrchestratorIdle
    /\ probe = NoProbe
    /\ derived = NoDerived
    /\ AppIdle
    /\ environment \in ErrorEnvironments
    /\ config = getConfigForEnvironment(environment)
    /\ \E utils \in {"utils.ts", "later"} : handled = [NoHandled EXCEPT !.utils = utils]

\* a catch block calls handleError(error, context)
HandleError(error, context) ==
    /\ handled.n < MaxErrors
    /\ handled' = [handled EXCEPT
                     !.n = handled.n + 1,
                     !.calls = Append(handled.calls,
                         [error |-> error, context |-> context,
                          message |-> handleError(handled.utils, error, context,
                                                  config.sanitizeErrorMessages)])]
    /\ UNCHANGED <<coreVars, appVars, environment, config>>

NextErrors == \E error \in ErrorInputs, context \in ErrorContexts : HandleError(error, context)

SpecErrors == InitErrors /\ [][NextErrors]_vars

-----------------------------------------------------------------------------
(* Properties *)

\* the request of the call a step starts, and the call a step finishes
StartsCall == nCalls' = nCalls + 1
StartedRequest ==
    IF inflight' = inflight
    THEN Request(last'.method, last'.path)
    ELSE LET r == CHOOSE r \in inflight' \ inflight : TRUE
         IN  Request(r.method, r.path)
FinishesCall == Cardinality(inflight') < Cardinality(inflight)
FinishedCall == CHOOSE r \in inflight \ inflight' : TRUE

\* C1: in the exact-key variant, when a PATCH or DELETE of /projects/P/scenarios/R
\* has returned, neither GET:/projects/P/scenarios/R nor
\* GET:/projects/P/scenarios/R?include=tags is in the cache, and no later
\* get_scenario of R returns from the cache a body stored before that write.
C1_WriteDropsScenarioKeys ==
    /\ (/\ variant = "exact" /\ enableCache
        /\ last.outcome = "return" /\ last.net = 1
        /\ last.method \in {"PATCH", "DELETE"}
        /\ \E p \in ProjectIds, sc \in ScenarioIds :
              last.path = <<"/", "projects", "/">> \o p \o <<"/", "scenarios", "/">> \o sc)
       => /\ (<<"GET", ":">> \o last.path) \notin DOMAIN cache
          /\ (<<"GET", ":">> \o last.path \o <<"?", "include=tags">>) \notin DOMAIN cache
    /\ (/\ variant = "exact"
        /\ last.outcome = "return" /\ last.net = 0
        /\ \E p \in ProjectIds, sc \in ScenarioIds, i \in BOOLEAN :
              Request(last.method, last.path) = getScenario(p, sc, i))
       => ~last.stale

\* C2: in the exact-key variant, once a write that changes the scenario set of P
\* has returned, no get_scenarios call for P (include_tags true or false) returns
\* from the cache a list body that was stored before that write.
C2_NoStaleScenarioList ==
    (/\ variant = "exact"
     /\ last.outcome = "return" /\ last.net = 0
     /\ \E p \in ProjectIds, i \in BOOLEAN :
           Request(last.method, last.path) = getScenarios(p, i))
    => ~last.stale

\* C3: a GET with caching enabled that finds an unexpired entry under GET:<path>,
\* whatever its body, returns that body and issues no network call.
C3_UnexpiredEntryIsReturned ==
    [][ StartsCall =>
          LET req == StartedRequest
              key == <<"GET", ":">> \o req.path
          IN  (/\ req.method = "GET" /\ enableCache
               /\ key \in DOMAIN cache
               /\ now - cache[key].timestamp <= ttl)
              => /\ inflight' = inflight
                 /\ last'.outcome = "return"
                 /\ last'.value = cache[key].data
                 /\ last'.net = 0
      ]_vars

\* C4: a GET with caching enabled that finds no unexpired entry under its key
\* issues exactly one network call and returns nothing from the cache, removing at
\* most its own key; when the response arrives its body is stored under exactly
\* GET:<path with query string>, with the time of arrival, and every other entry
\* is left as it was.
C4_MissStoresUnderOwnKey ==
    [][ /\ StartsCall =>
              LET req == StartedRequest
                  key == <<"GET", ":">> \o req.path
              IN  (/\ req.method = "GET" /\ enableCache
                   /\ (key \notin DOMAIN cache \/ now - cache[key].timestamp > ttl))
                  => /\ Cardinality(inflight' \ inflight) = 1
                     /\ inflight \subseteq inflight'
                     /\ last' = last
                     /\ DOMAIN cache' = DOMAIN cache \ {key}
                     /\ \A k \in DOMAIN cache' : cache'[k] = cache[k]
        /\ (FinishesCall /\ last'.outcome = "return") =>
              LET r == FinishedCall
                  key == <<"GET", ":">> \o r.path
              IN  (r.method = "GET" /\ enableCache)
                  => /\ DOMAIN cache' = DOMAIN cache \cup {key}
                     /\ cache'[key] = [data |-> r.data, timestamp |-> now]
                     /\ \A k \in DOMAIN cache : k # key => cache'[k] = cache[k]
                     /\ last'.net = 1
                     /\ last'.value = r.data
      ]_vars

\* C4 witness: a GET of a path with a query string has stored its response under
\* its own key while another entry is in the cache
C4_Witness ==
    /\ enableCache
    /\ last.method = "GET" /\ last.outcome = "return" /\ last.net = 1
    /\ last.path = getScenarios(<<"1">>, TRUE).path
    /\ (<<"GET", ":">> \o last.path) \in DOMAIN cache
    /\ cache[<<"GET", ":">> \o last.path].data = last.value
    /\ cache[<<"GET", ":">> \o last.path].timestamp = now
    /\ now > 0
    /\ Cardinality(DOMAIN cache) = 2

\* C5: a non-GET call issues its network call whatever the cache holds; in the
\* exact-key variant, when the response arrives the invalidator runs with the
\* call's method and path and leaves none of the keys it derives in the cache
\* (with caching disabled it leaves the cache as it is).
C5_WriteInvalidates ==
    [][ /\ (StartsCall /\ StartedRequest.method # "GET") =>
              /\ Cardinality(inflight' \ inflight) = 1
              /\ last' = last
        /\ (FinishesCall /\ last'.outcome = "return") =>
              LET r == FinishedCall
              IN  (r.method # "GET" /\ variant = "exact")
                  => /\ last'.invArgs = <<r.method, r.path>>
                     /\ last'.value = r.data
                     /\ enableCache =>
                           \A k \in KeysToInvalidate(r.path) : k \notin DOMAIN cache'
                     /\ DOMAIN cache' \subseteq DOMAIN cache
                     /\ \A k \in DOMAIN cache' : cache'[k] = cache[k]
                     /\ ~enableCache => cache' = cache
      ]_vars

\* C5 witness: a tag PATCH has returned in the exact-key variant and of the cached
\* entries only the scenario list with ?include=tags is left
C5_Witness ==
    /\ variant = "exact" /\ enableCache
    /\ Request(last.method, last.path) = updateTag(<<"1">>, <<"7">>, <<"9">>)
    /\ last.outcome = "return"
    /\ last.invArgs = <<last.method, last.path>>
    /\ DOMAIN cache = {CacheKeyOf("GET", getScenarios(<<"1">>, TRUE).path)}
    /\ nCalls = 3

\* C10: a call whose network call failed returns no value: it throws the very
\* error axios rejected with, for GET and non-GET, in both variants.
C10_ErrorRethrown ==
    last.axios.kind = "error" =>
        /\ last.outcome = "throw"
        /\ last.value = last.axios

\* C10 witness: a GET rejected by the upstream with a status has thrown that error
C10_Witness ==
    /\ last.method = "GET"
    /\ last.axios = ResponseError(500)
    /\ last.outcome = "throw"
    /\ variant = "substring"

\* C11: a finished call made at most one network call, at most one cache read and
\* at most one cache write; a non-GET call made no cache read and no cache write,
\* and a GET call made no cache invalidation.
C11_SideEffectsBounded ==
    last.method # "none" =>
        /\ last.net <= 1 /\ last.reads <= 1 /\ last.writes <= 1
        /\ last.method # "GET" => (last.reads = 0 /\ last.writes = 0)
        /\ last.method = "GET" => last.invs = 0
        /\ last.axios.kind = "error" => (last.net = 1 /\ last.writes = 0)

\* C11 witness: a write has made its one network call and several invalidations,
\* with no cache read or write
C11_Witness ==
    /\ enableCache /\ variant = "exact"
    /\ last.method = "PATCH" /\ last.outcome = "return"
    /\ last.net = 1 /\ last.reads = 0 /\ last.writes = 0 /\ last.invs >= 2

\* C7: a get(k) that follows a set(k, v) at t0, with no set, invalidate or clear
\* of k in between, returns v when t - t0 <= TTL and absent when t - t0 > TTL.
C7_TtlRoundTrip ==
    (probe.op = "get" /\ probe.hist[probe.key].state = "set") =>
        LET h == probe.hist[probe.key]
        IN  /\ (probe.at - h.at <= ttl) => probe.result = h.data
            /\ (probe.at - h.at > ttl) => probe.result = Null

\* C7 witness: a get exactly TTL after the set, which still returns the value
C7_Witness ==
    /\ probe.op = "get"
    /\ probe.hist[probe.key].state = "set"
    /\ probe.at - probe.hist[probe.key].at = ttl
    /\ probe.result = JsonBody(1)

\* C8: invalidate(k) leaves no entry under k, changes no entry under another key,
\* and changes nothing when k is not stored; a get(k) after it returns absent.
C8_InvalidateExact ==
    [][ /\ (probe'.op = "invalidate" /\ probe' # probe) =>
              /\ probe'.key \notin DOMAIN cache'
              /\ DOMAIN cache' = DOMAIN cache \ {probe'.key}
              /\ \A j \in DOMAIN cache' : cache'[j] = cache[j]
              /\ (probe'.key \notin DOMAIN cache => cache' = cache)
        /\ (probe'.op = "get" /\ probe'.hist[probe'.key].state = "invalidated") =>
              probe'.result = Null
      ]_vars

\* C8 witness: a get of a key invalidated at the very time it was stored returns
\* absent while the other key is still stored
C8_Witness ==
    /\ probe.op = "get"
    /\ probe.hist[probe.key].state = "invalidated"
    /\ probe.result = Null
    /\ now = 0
    /\ \E j \in DOMAIN cache : j # probe.key /\ cache[j].timestamp = 0

\* C9: set(k, v) stores exactly [v, now] under k whatever was there and touches no
\* other key; after set(k, v1) at t1 and set(k, v2) at t2 > t1, a get(k) at t with
\* t - t2 <= TTL returns v2.
C9_SetOverwrites ==
    [][ /\ (probe'.op = "set" /\ probe' # probe) =>
              /\ DOMAIN cache' = DOMAIN cache \cup {probe'.key}
              /\ cache'[probe'.key] =
                    [data |-> probe'.hist[probe'.key].data, timestamp |-> now]
              /\ \A j \in DOMAIN cache : j # probe'.key => cache'[j] = cache[j]
        /\ (/\ probe'.op = "get"
            /\ probe'.hist[probe'.key].state = "set"
            /\ probe'.hist[probe'.key].overwritten
            /\ probe'.hist[probe'.key].prevAt < probe'.hist[probe'.key].at
            /\ probe'.at - probe'.hist[probe'.key].at <= ttl) =>
              probe'.result = probe'.hist[probe'.key].data
      ]_vars

\* C9 witness: a get returns the second value at a time when the first set is more
\* than TTL old and the second is not
C9_Witness ==
    LET h == probe.hist[probe.key]
    IN  /\ probe.op = "get"
        /\ h.state = "set" /\ h.overwritten
        /\ h.prevData # h.data
        /\ h.prevAt < h.at
        /\ probe.at - h.at <= ttl
        /\ probe.at - h.prevAt > ttl
        /\ probe.result = h.data


\* the lines of a definition
LinesOf(text) == Split(text, "\n")

\* C13: for every name and step list whose types are given, when, then or and in
\* lowercase and whose name and texts hold no single quote,
\* scenarioToStructured(stepsToScenarioDefinition(name, steps)) is {name, steps}.
C13_CodecRoundTrip ==
    (/\ codec.kind = "structured" /\ codec.stage = "parsed" /\ codec.nFormat = 0
     /\ \A i \in 1..Len(codec.in.name) : codec.in.name[i] # "'"
     /\ \A i \in 1..Len(codec.in.steps) :
           /\ codec.in.steps[i].type \in {"given", "when", "then", "and"}
           /\ \A j \in 1..Len(codec.in.steps[i].text) :
                 codec.in.steps[i].text[j] # "'")
    => /\ codec.out.name = codec.in.name
       /\ codec.out.steps = codec.in.steps

\* C14: for every text x, formatting the formatted text changes nothing:
\* formatScenarioDefinition(formatScenarioDefinition(x)) =
\* formatScenarioDefinition(x).
C14_FormatIdempotent ==
    (codec.kind # "none" /\ codec.nFormat = 2) => codec.text = codec.prev

\* C15: formatScenarioDefinition returns the scenario line and the end line
\* unchanged, and the steps parsed from its result are the steps parsed from its
\* argument.
C15_FormatKeepsSteps ==
    (codec.kind # "none" /\ codec.nFormat = 1) =>
        /\ extractScenarioSteps(codec.text) = extractScenarioSteps(codec.prev)
        /\ Len(LinesOf(codec.text)) = Len(LinesOf(codec.prev))
        /\ \A i \in 1..Len(LinesOf(codec.prev)) :
              IsScenarioOrEndLine(LinesOf(codec.prev)[i]) =>
                  LinesOf(codec.text)[i] = LinesOf(codec.prev)[i]

\* the lines of a text that match the step pattern, and those of them that are
\* neither a scenario declaration nor an end line
MatchingLines(text) ==
    SelectSeq(LinesOf(text), LAMBDA l : StepPattern(Trim(l)).ok)
StepLinesIn(text) ==
    SelectSeq(LinesOf(text), LAMBDA l : StepPattern(Trim(l)).ok /\ ~IsScenarioOrEndLine(l))

\* C16 as stated: the parse ends without an error, every line that matches the
\* step pattern gives exactly one step and every other line none, in line order,
\* with a lowercase type among given, when, then, and.
C16_EveryMatchingLineIsAStep ==
    (codec.kind = "text" /\ codec.stage = "parsed") =>
        /\ Len(codec.out.steps) = Len(MatchingLines(codec.text))
        /\ \A i \in 1..Len(codec.out.steps) :
              /\ codec.out.steps[i].type \in {"given", "when", "then", "and"}
              /\ codec.out.steps[i].text = StepPattern(Trim(MatchingLines(codec.text)[i])).text

\* C16 as amended: the parse ends without an error; every line that matches the
\* step pattern and is neither a scenario declaration (its trimmed text starts
\* with `scenario`) nor an end line gives exactly one step, every other line
\* gives none, the steps are in line order and every type is one of given, when,
\* then, and in lowercase.
C16_ParseTolerance ==
    (codec.kind = "text" /\ codec.stage = "parsed") =>
        /\ Len(codec.out.steps) = Len(StepLinesIn(codec.text))
        /\ \A i \in 1..Len(codec.out.steps) :
              /\ codec.out.steps[i].type \in {"given", "when", "then", "and"}
              /\ codec.out.steps[i].text = StepPattern(Trim(StepLinesIn(codec.text)[i])).text

\* C16 witness: a text of a line that matches no pattern and a step line written
\* with an upper-case keyword has been parsed to one step of type given
C16_Witness ==
    /\ codec.kind = "text" /\ codec.stage = "parsed"
    /\ codec.text = <<"x", "\n", " ", " ", "call", " ", "GIVEN", " ", "'", "a", "'">>
    /\ codec.out.steps = <<[type |-> "given", text |-> <<"a">>]>>


\* C12: in read-only mode a call of a write tool, under any spelling of its
\* name, is answered with a rejection, runs no handler and makes no network call;
\* a read tool called by its name runs its handler in every mode.
C12_ReadOnlyRejectsWrites ==
    /\ (readOnlyMode /\ \E t \in WriteTools : tool.name \in Spellings(t)) =>
          /\ tool.response \in {"not allowed", "unknown tool", "not registered"}
          /\ tool.handler = "none"
          /\ tool.net = 0
    /\ \A t \in ReadTools :
          tool.name = ToolName(t) => (tool.handler = t /\ tool.response \in {"success", "error"})

\* C12 witness: in read-only mode the low-level server has refused delete_tag,
\* called by a prefixed name that normalises to the tool's name
C12_Witness ==
    /\ readOnlyMode /\ server = "lowlevel"
    /\ tool.name = <<"mcp_", "cucumber_studio_", "cucumber_studio_", "delete_tag">>
    /\ tool.response = "not allowed"
    /\ tool.net = 0


\* the responses of the additions that succeeded, in input order
RECURSIVE SuccessfulResponses(_, _, _)
SuccessfulResponses(tags, fate, i) ==
    IF i > Len(tags) THEN <<>>
    ELSE (IF fate[i] = "ok" THEN <<TagResponse(tags[i], i)>> ELSE <<>>)
            \o SuccessfulResponses(tags, fate, i + 1)

\* C20: in the collect-and-continue variant, when addTagsToScenario has ended,
\* every tag of the list was tried exactly once in input order, also after a
\* failure; it threw the total failure exactly when at least one tag failed and
\* none succeeded; otherwise it returned the responses of the successful
\* additions, in input order.
C20_AddTagsPartialFailure ==
    (variant = "exact" /\ tagsRun.pc = "done") =>
        /\ tagsRun.attempts = tagsRun.tags
        /\ Len(tagsRun.fate) = Len(tagsRun.tags)
        /\ (tagsRun.outcome = "throw" /\ tagsRun.value = TotalFailure)
              <=> (/\ \E i \in 1..Len(tagsRun.fate) : tagsRun.fate[i] = "fail"
                   /\ \A i \in 1..Len(tagsRun.fate) : tagsRun.fate[i] # "ok")
        /\ tagsRun.outcome # "throw" =>
              /\ tagsRun.outcome = "return"
              /\ tagsRun.value = SuccessfulResponses(tagsRun.tags, tagsRun.fate, 1)

\* C20 witness: of three tags the first failed and the two after it were added;
\* the call returned their two responses
C20_Witness ==
    /\ variant = "exact" /\ tagsRun.pc = "done"
    /\ tagsRun.fate = <<"fail", "ok", "ok">>
    /\ tagsRun.outcome = "return"
    /\ Len(tagsRun.value) = 2


\* C17: a create_scenario call with steps and no tags that succeeds has made
\* exactly the calls POST (create), PATCH (the generated definition) and GET (the
\* final read), in that order, and the steps of the structured scenario it
\* returns are the input steps.
C17_CreateEndToEnd ==
    (/\ run.pc = "done" /\ run.tool = "create_scenario"
     /\ run.input.steps # <<>> /\ run.input.tags = <<>>
     /\ run.result.kind = "success")
    => /\ run.log = <<createScenario(ProjectId),
                      updateScenario(ProjectId, CreatedId),
                      getScenario(ProjectId, CreatedId, TRUE)>>
       /\ run.result.payload.data[1].hasStructured
       /\ run.result.payload.data[1].structured.steps = run.input.steps

\* the runs that change the tags or the steps of a scenario
MutatesTagsOrSteps(r) ==
    \/ r.tool \in {"add_tag", "update_tag", "delete_tag"}
    \/ r.tool = "add_tags" /\ r.input.tags # <<>>
    \/ /\ r.tool \in {"create_scenario", "update_scenario"}
       /\ (r.input.tags # <<>> \/ r.input.steps # <<>>)

\* C18: a tool that changes tags or steps and succeeds ends with a re-fetch of
\* the scenario, issued after its last mutating call, and returns that re-fetched
\* state: not the response of a mutating call, not a body cached before.
C18_RefetchAfterMutation ==
    (run.pc = "done" /\ run.result.kind = "success" /\ MutatesTagsOrSteps(run))
    => /\ run.origin = "network"
       /\ run.log[Len(run.log)] = getScenario(ProjectId, run.sid, TRUE)
       /\ run.raw.ver >= run.mutVer

\* C19: every scenario a scenario tool returns, in a list or as a single object,
\* whose definition is not empty carries the normalised definition and the
\* structured {name, steps} made from the original definition.
C19_ScenariosCarryStructured ==
    (run.pc = "done" /\ run.result.kind = "success") =>
        \A i \in 1..Len(run.raw.data) :
            run.raw.data[i].definition # <<>> =>
                LET sc == run.result.payload.data[i]
                IN  /\ sc.definition = formatScenarioDefinition(run.raw.data[i].definition)
                    /\ sc.hasStructured
                    /\ sc.structured = scenarioToStructured(run.raw.data[i].definition)


\* the key of the call a step has started and suspended, and of the call a step
\* has answered from the cache
IssuedKeys == {CacheKeyOf(c.method, c.path) : c \in {x \in inflight' : x.id = nCalls + 1}}
HitKey == CacheKeyOf(last'.method, last'.path)

\* C24: with two calls suspended at once, a GET that the upstream answered before
\* a write can store its pre-write body after the write's invalidation has run;
\* the entry is older than the upstream's state, and while it has not expired a
\* later GET of its path is answered with it, without a network call; once it
\* has expired a GET of its path is not answered from the cache.
C24_StaleEntryServed ==
    /\ [](\A k \in staleKeys : k \in DOMAIN cache /\ cache[k].data.ver < upVer)
    /\ [][\A k \in staleKeys :
             (nCalls' = nCalls + 1 /\ Truthy(cache[k].data)) =>
                 IF now - cache[k].timestamp > ttl
                 THEN ~(inflight' = inflight /\ HitKey = k)
                 ELSE /\ k \notin IssuedKeys
                      /\ (inflight' = inflight /\ HitKey = k) =>
                            /\ last'.value = cache[k].data
                            /\ last'.net = 0]_vars

\* C24 witness: in the substring variant, where a write that returns drops every
\* key of its project, a GET has been answered from the cache with a body older
\* than the upstream's state
C24_Witness ==
    /\ variant = "substring"
    /\ last.method = "GET" /\ last.net = 0 /\ last.stale
    /\ last.value.ver < upVer


\* path is /projects/p or a path below it
UnderProject(path, p) ==
    /\ StartsWith(path, ProjectPathOf(p))
    /\ \/ Len(path) = Len(ProjectPathOf(p))
       \/ path[Len(ProjectPathOf(p)) + 1] \in {"/", "?"}

\* C25: in the substring variant with caching enabled, a non-GET request on a
\* path under /projects/P that returns removes exactly the stored keys that
\* contain /projects/P and leaves every other entry as it was; the cache then
\* holds no key containing /projects/P, and a GET of a path under P would not be
\* answered from the cache.
C25_SubstringInvalidation ==
    [][\A r \in inflight :
          (/\ r.stage = "served" /\ r.method # "GET"
           /\ inflight' = inflight \ {r}
           /\ last'.outcome = "return" /\ last'.net = 1) =>
              \A p \in SubstringProjects :
                  UnderProject(r.path, p) =>
                      /\ DOMAIN cache' =
                            {k \in DOMAIN cache : ~Includes(k, ProjectPathOf(p))}
                      /\ \A k \in DOMAIN cache' : cache'[k] = cache[k]
                      /\ \A req \in SubstringRequests :
                            (req.method = "GET" /\ UnderProject(req.path, p)) =>
                                ~Truthy(CacheLookup(cache', req.method, req.path,
                                                    now, ttl, enableCache).value)]_vars

\* C25 witness: a POST on project 1 has returned as the third call, and the
\* entry of project 2 is still in the cache
C25_Witness ==
    /\ variant = "substring" /\ enableCache
    /\ nCalls = 3 /\ inflight = {}
    /\ last.method = "POST" /\ last.outcome = "return"
    /\ last.path = createScenario(<<"1">>).path
    /\ DOMAIN cache = {CacheKeyOf("GET", getProject(<<"2">>).path)}
    /\ upVer = 1


\* C27: with caching disabled no call reads, writes or invalidates the cache, every
\* GET makes a network call, and the cache stays as it was before the calls.
C27_DisabledCacheUntouched ==
    ~enableCache =>
        /\ cache = << >>
        /\ last.method # "none" =>
              /\ last.reads = 0 /\ last.writes = 0 /\ last.invs = 0
              /\ last.method = "GET" => last.net = 1

\* C27 witness: with caching disabled, a GET that follows a write and an earlier
\* call has made its network call and returned
C27_Witness ==
    /\ ~enableCache
    /\ nCalls = 3 /\ inflight = {} /\ upVer >= 1
    /\ last.method = "GET" /\ last.outcome = "return" /\ last.net = 1

\* the steps in which a call is suspended at the network call, and in which a
\* suspended call resumes in the catch block
IssueStep(c) == c \in inflight' /\ c.id = nCalls + 1 /\ nCalls' = nCalls + 1
FailStep(r) ==
    /\ r \in inflight /\ inflight' = inflight \ {r}
    /\ last'.outcome = "throw" /\ last'.method = r.method /\ last'.path = r.path

\* C28: a call whose network call fails leaves the cache as it was: the catch
\* block stores nothing and invalidates nothing, and the only change the call
\* made before it was suspended is the removal of the expired entry of its own
\* key by the cache read of a GET.
C28_FailedCallKeepsCache ==
    [][/\ \A r \in inflight : FailStep(r) => cache' = cache
       /\ \A c \in inflight' : IssueStep(c) =>
             \/ cache' = cache
             \/ /\ c.method = "GET"
                /\ CacheKeyOf(c.method, c.path) \in DOMAIN cache
                /\ now - cache[CacheKeyOf(c.method, c.path)].timestamp > ttl
                /\ cache' = MapDelete(cache, CacheKeyOf(c.method, c.path))]_vars

\* C28 witness: a write has failed and the entries stored before it are still in
\* the cache
C28_Witness ==
    /\ enableCache
    /\ last.method \in {"POST", "PATCH", "DELETE"} /\ last.outcome = "throw"
    /\ Cardinality(DOMAIN cache) = 2

\* C29: every stored key is GET:<path> for the path of a GET request, and an
\* entry is stored or replaced only by a GET that returns, under the key of its
\* own path and with the body of its own response: no response of a POST, PATCH
\* or DELETE and no error is ever stored.
C29_OnlyGetBodiesCached ==
    /\ [](\A k \in DOMAIN cache :
             /\ k[1] = "GET" /\ k[2] = ":"
             /\ \E req \in ClientRequests :
                   req.method = "GET" /\ k = CacheKeyOf("GET", req.path)
             /\ cache[k].data.kind \in {"json", "empty"})
    /\ [][\A k \in DOMAIN cache' :
             (k \notin DOMAIN cache \/ cache'[k] # cache[k]) =>
                 \E r \in inflight :
                     /\ r.stage = "served" /\ r.method = "GET"
                     /\ r \notin inflight'
                     /\ last'.outcome = "return" /\ last'.net = 1
                     /\ k = CacheKeyOf("GET", r.path)
                     /\ cache'[k].data = r.data]_vars

\* C29 witness: two GET responses are stored, and a call that failed after them
\* has stored nothing
C29_Witness ==
    /\ Cardinality(DOMAIN cache) = 2
    /\ nCalls = 3 /\ inflight = {}
    /\ last.outcome = "throw" /\ last.method = "GET"
    /\ CacheKeyOf(last.method, last.path) \notin DOMAIN cache


\* the three settings, each with its variable and its documented default
DocumentedSettings ==
    {[name |-> "enableCache", variable |-> "ENABLE_CACHE", default |-> TRUE],
     [name |-> "enableRequestLogging", variable |-> "ENABLE_REQUEST_LOGGING",
      default |-> TRUE],
     [name |-> "enableResponseLogging", variable |-> "ENABLE_RESPONSE_LOGGING",
      default |-> FALSE]}

\* C26: for every NODE_ENV, each of enableCache, enableRequestLogging and
\* enableResponseLogging has the value parsed from its own variable when that
\* variable is set (what the setting is when its variable is not set is left to
\* the default and to the overrides of the environment).
C26_SettingsFollowOwnVariable ==
    config.loaded =>
        \A st \in DocumentedSettings :
            environment[st.variable] # Undefined =>
                config[st.name] = parseBoolean(environment[st.variable], st.default)


\* the pieces of a message
Pieces(message) == {message[i] : i \in 1..Len(message)}

\* C22: with config.sanitizeErrorMessages on, two errors handled with the same
\* context give the same message, whatever the errors are; with it off, the
\* message of an error that carries a response holds the status and the text of
\* each of the upstream's errors.
C22_SanitizedMessageDependsOnContext ==
    /\ config.sanitizeErrorMessages =>
          \A i, j \in 1..handled.n :
              handled.calls[i].context = handled.calls[j].context
                  => handled.calls[i].message = handled.calls[j].message
    /\ ~config.sanitizeErrorMessages =>
          \A i \in 1..handled.n :
              LET c == handled.calls[i]
              IN  c.error.class = "AxiosResponse" =>
                      /\ c.error.status \in Pieces(c.message)
                      /\ \A k \in 1..Len(c.error.errors) :
                            ApiErrorText(c.error.errors[k]) \in Pieces(c.message)


\* the inputs the claim calls invalid
InvalidInput(r) ==
    \/ r.input.missing # "none"
    \/ r.tool = "add_tags" /\ r.input.tags = <<>>
    \/ r.tool = "update_scenario" /\ ~NeedsAttributeUpdate(r.input) /\ r.input.tags = <<>>

\* C23: a tool call whose input lacks a required field, an add_tags call without
\* a non-empty tags list and an update_scenario call with no attribute and no tag
\* end with an error response and without a network call.
C23_ValidationBeforeNetwork ==
    (run.pc = "done" /\ InvalidInput(run)) =>
        /\ run.result.kind = "error"
        /\ run.log = <<>>


\* the calls of a create_scenario run that nothing stops
ExpectedCreateCalls(r) ==
    <<createScenario(ProjectId)>>
        \o [i \in 1..Len(r.input.tags) |-> addTagToScenario(ProjectId, CreatedId)]
        \o (IF r.input.steps # <<>> THEN <<updateScenario(ProjectId, CreatedId)>> ELSE <<>>)
        \o (IF r.input.tags # <<>> \/ r.input.steps # <<>>
            THEN <<getScenario(ProjectId, CreatedId, TRUE)>> ELSE <<>>)

IsPrefix(s, t) == Len(s) <= Len(t) /\ s = SubSeq(t, 1, Len(s))

=============================================================================
